---- MODULE Spec2Model ----
(***************************************************************************)
(* Session, credential and abuse-defense core of a8n-tools/saas.           *)
(*                                                                         *)
(* The durable store is modelled as sets of rows; every SQL statement is   *)
(* one atomic step and every `.await` on the store is a point where other  *)
(* requests may interleave.  Write statements (INSERT/UPDATE) may fail     *)
(* with a store error, which `?` propagates out of the enclosing flow.     *)
(* Time is a discrete clock; lifetimes are scaled to a few ticks.          *)
(***************************************************************************)
EXTENDS Integers, Sequences, FiniteSets, TLC

\* ------------------------------------------------------------------ bounds
MaxTime == 2            \* the clock runs 0..MaxTime

\* ------------------------------------------------- program constants (ticks)
REFRESH_TOKEN_EXPIRY == 1   \* JwtConfig.refresh_token_expiry (30 days)
REFRESH_RECORD_TTL == 1     \* create_tokens: Utc::now() + Duration::days(30)
ACCESS_TOKEN_EXPIRY == 1    \* JwtConfig.access_token_expiry (15 minutes)
MAGIC_LINK_TTL == 1         \* request_magic_link: Duration::minutes(15)
PASSWORD_RESET_TTL == 1     \* request_password_reset: Duration::hours(1)
RATE_MAX_REQUESTS == 2      \* RateLimitConfig.max_requests (LOGIN: 5)
RATE_WINDOW_SECONDS == 1    \* RateLimitConfig.window_seconds (LOGIN: 60)
AUTOBAN_THRESHOLD == 2          \* AutoBanConfig.threshold (default 5)
AUTOBAN_WINDOW_SECS == 1        \* AutoBanConfig.window_secs (default 3600)
AUTOBAN_BAN_DURATION_SECS == 2  \* AutoBanConfig.ban_duration_secs (86400)

\* ---------------------------------------------------------------- universe
Procs == {1, 2}                       \* the requests, in order of arrival
UserIds == {"u1", "u2"}               \* rows of the users table
Emails == {"u1@x", "u2@x", "new@x"}   \* "new@x" belongs to no user at start
Passwords == {"pwA", "pwB"}
NewPasswords == {"pwC", "weak", "pwU1"}    \* candidates for a new password
AuthnProcs == {1, 2}                       \* requests that present a token
RateProcs == {1, 2, 3, 4}                  \* check_and_increment calls
RateKeys == {"u1@x", "u2@x"}               \* key of the "login" action
CheckProcs == {1, 2}                       \* check calls
NewUserId == "u3"                          \* id the store gives a created user
BanProcs == {1, 2, 3}                      \* requests through the middleware
Ips == {"ip1", "ip2"}                      \* client addresses
\* Request paths, as sequences of characters: a probe and the login route.
WpLoginPath == <<"/", "w", "p", "-", "l", "o", "g", "i", "n", ".", "p", "h", "p">>
LoginPath ==
    <<"/", "v", "1", "/", "a", "u", "t", "h", "/", "l", "o", "g", "i", "n">>
Paths == {WpLoginPath, LoginPath}

\* Option<T>: None is the empty sequence, Some(x) a one-element sequence.
None == <<>>
Some(x) == <<x>>
IsSome(o) == o # <<>>
Unwrap(o) == o[1]

VARIABLES
    now,                    \* wall clock (Utc::now() / SQL NOW())
    users,                  \* users table: id -> row
    refresh_tokens,         \* refresh_tokens table
    magic_link_tokens,      \* magic_link_tokens table
    password_reset_tokens,  \* password_reset_tokens table
    audit_logs,             \* audit_logs table (set of <<action, actor>>)
    next_id,                \* source of fresh uuids (row ids, jti, secrets)
    calls,                  \* per request: operation, position, locals
    issued,                 \* raw rotation tokens handed to a caller
    mailed,                 \* raw ephemeral tokens handed to a caller
    rotated,                \* raw rotation tokens whose refresh returned Ok
    revoked_all,            \* record ids revoked by a logout_all statement
    logged_out,             \* raw tokens whose logout statement executed
    pw_updates,             \* <<raw reset token, request>>: update_password ran
    rate_limits,            \* rate_limits table: (key, action) -> row
    rl_calls,               \* per check_and_increment call: position, locals
    rl_log,                 \* per key: counts returned in the stored window
    rl_checks,              \* per check call: position, locals, answer
    enabled,                \* AutoBanConfig.enabled
    banned,                 \* AutoBanService.banned: address -> BanEntry
    strikes,                \* AutoBanService.strikes: address -> StrikeEntry
    ip_bans,                \* ip_bans table: address -> row
    boot,                   \* main: position of the startup, rows it loaded
    reqs,                   \* per middleware request: position, locals
    sweeper,                \* the auto-ban cleanup task: position, time stamp
    persist,                \* spawned persist_ban tasks that have not run
    strike_hist,            \* per address: strikes counted and entries swept
    locks,                  \* holder of each RwLock's write guard, if any
    authn,                  \* per presented token: position, token, outcome
    probe                   \* the last path given to the matcher, its answer

vars == <<now, users, refresh_tokens, magic_link_tokens, password_reset_tokens,
          audit_logs, next_id, calls, issued, mailed,
          rotated, revoked_all, logged_out, pw_updates,
          rate_limits, rl_calls, rl_log, rl_checks,
          enabled, banned, strikes, ip_bans, boot, reqs, sweeper, persist,
          strike_hist, locks, authn, probe>>

\* ------------------------------------------------------------ SignatureService

\* JwtService::hash_token: SHA-256 hex digest of the raw token.
hash_token(token) == [sha256 |-> token]

\* A rotation token is a signed set of RefreshTokenClaims; sig is TRUE when
\* the signature was made with the service's key.
RefreshTokenClaims(sub, jti, iat) ==
    [sub |-> sub, jti |-> jti, exp |-> iat + REFRESH_TOKEN_EXPIRY, iat |-> iat,
     sig |-> TRUE]

\* Mutant: the token itself is handed on as its hash.
create_refresh_token_unhashed(user_id, jti, t) ==
    LET token == RefreshTokenClaims(user_id, jti, t)
    IN  <<token, token>>

\* JwtService::create_refresh_token: (token, token_hash).
create_refresh_token(user_id, jti, t) ==
    LET token == RefreshTokenClaims(user_id, jti, t)
    IN  <<token, hash_token(token)>>

\* JwtConfig.issuer, and the issuer of another deployment.
JwtIssuer == "saas"
Issuers == {JwtIssuer, "elsewhere"}

\* A session token is a signed set of AccessTokenClaims (the membership
\* fields are left out); sig as above.
AccessTokenClaims(user_id, jti, iat) ==
    [sub |-> user_id, email |-> users[user_id].email,
     role |-> users[user_id].role, iat |-> iat,
     exp |-> iat + ACCESS_TOKEN_EXPIRY, jti |-> <<"at", jti>>,
     iss |-> JwtIssuer, sig |-> TRUE]

\* Mutant: every token is signed for the default role.
create_access_token_default_role(user_id, jti, t) ==
    [AccessTokenClaims(user_id, jti, t) EXCEPT !.role = "subscriber"]

\* JwtService::create_access_token.
create_access_token(user_id, jti, t) == AccessTokenClaims(user_id, jti, t)

\* The fields serde needs to build each claim set; others are ignored.
AccessClaimNames == {"sub", "email", "role", "iat", "exp", "jti", "iss"}
RefreshClaimNames == {"sub", "jti", "exp", "iat"}

\* token_data.claims of a decoded token.
AccessClaimsOf(token) == [f \in AccessClaimNames |-> token[f]]
RefreshClaimsOf(token) == [f \in RefreshClaimNames |-> token[f]]

\* JwtService::verify_access_token: "Ok", or the typed failure.  decode
\* checks the signature, builds the claim set, then validates exp and, as
\* set_issuer asks, iss; only ExpiredSignature maps to TokenExpired.  The
\* decoder's leeway is shorter than one tick of the clock.
verify_access_token(token, t) ==
    IF ~token.sig THEN "InvalidCredentials"
    ELSE IF ~(AccessClaimNames \subseteq DOMAIN token) THEN "InvalidCredentials"
    ELSE IF ~(token.exp > t) THEN "TokenExpired"
    ELSE IF token.iss # JwtIssuer THEN "InvalidCredentials"
    ELSE "Ok"

\* JwtService::verify_refresh_token: "Ok", or the typed failure.  The
\* Validation names sub and exp as required and sets no issuer.
verify_refresh_token(token, t) ==
    IF ~token.sig THEN "InvalidCredentials"
    ELSE IF ~(token.exp > t) THEN "TokenExpired"
    ELSE "Ok"

\* A token signed with some other key.
ForgedToken == [sub |-> "u1", jti |-> 0, exp |-> MaxTime + 1, iat |-> 0,
                sig |-> FALSE]

\* PasswordService::hash / verify (the salt is left out).
PasswordHash(pw) == <<"argon2", pw>>
PasswordVerify(pw, hash) == hash = PasswordHash(pw)

\* PasswordService::validate_strength: the candidate "weak" stands for every
\* password the strength rules reject.
validate_strength(pw) == pw # "weak"

\* PasswordService::validate_not_contains_email: the candidate "pwU1" stands
\* for a password that contains the local part of u1's address.
validate_not_contains_email(pw, email) == ~(pw = "pwU1" /\ email = "u1@x")

\* generate_secure_token: fresh random bytes, drawn from the uuid source.
generate_secure_token(n) == [random |-> n]

\* A well-formed ephemeral token that was never stored.
UnknownToken == generate_secure_token(0)

\* -------------------------------------------------------------- models/token.rs

\* RefreshToken::is_valid: !is_expired() && !is_revoked().
RefreshToken_is_valid(r, t) == ~(r.expires_at < t) /\ ~IsSome(r.revoked_at)

\* MagicLinkToken::is_valid / PasswordResetToken::is_valid.
MagicLinkToken_is_valid(r, t) == ~(r.expires_at < t) /\ ~IsSome(r.used_at)
PasswordResetToken_is_valid(r, t) == ~(r.expires_at < t) /\ ~IsSome(r.used_at)

\* --------------------------------------------------------------- UserRepository

UserRow(email, pw, login) ==
    [email |-> email, password_hash |-> pw, role |-> "subscriber",
     deleted_at |-> None, email_verified |-> FALSE, last_login_at |-> login]

\* create: INSERT INTO users (email, password_hash, role) ... RETURNING *.
UserRepository_create(email, pw) ==
    [u \in DOMAIN users \cup {NewUserId} |->
        IF u = NewUserId THEN UserRow(email, pw, None) ELSE users[u]]

\* find_by_email: WHERE LOWER(email) = LOWER($1) AND deleted_at IS NULL.
find_by_email(email) ==
    LET m == {u \in DOMAIN users :
                 users[u].email = email /\ ~IsSome(users[u].deleted_at)}
    IN  IF m = {} THEN None ELSE Some(CHOOSE u \in m : TRUE)

\* find_by_id: WHERE id = $1 AND deleted_at IS NULL.
find_by_id(id) ==
    IF id \in DOMAIN users /\ ~IsSome(users[id].deleted_at)
    THEN Some(id) ELSE None

\* update_last_login: UPDATE users SET last_login_at = NOW() WHERE id = $1.
update_last_login(id) ==
    [u \in DOMAIN users |->
        IF u = id THEN [users[u] EXCEPT !.last_login_at = Some(now)]
        ELSE users[u]]

\* update_password: UPDATE users SET password_hash = $1 WHERE id = $2.
update_password(id, hash) ==
    [u \in DOMAIN users |->
        IF u = id THEN [users[u] EXCEPT !.password_hash = Some(hash)]
        ELSE users[u]]

\* set_email_verified: UPDATE users SET email_verified = TRUE WHERE id = $1.
set_email_verified(id) ==
    [u \in DOMAIN users |->
        IF u = id THEN [users[u] EXCEPT !.email_verified = TRUE]
        ELSE users[u]]

\* -------------------------------------------------------------- TokenRepository

\* find_refresh_token_by_hash:
\*   WHERE token_hash = $1 AND revoked_at IS NULL AND expires_at > NOW().
find_refresh_token_by_hash(h) ==
    LET m == {r \in refresh_tokens :
                 r.token_hash = h /\ ~IsSome(r.revoked_at) /\ r.expires_at > now}
    IN  IF m = {} THEN None ELSE Some(CHOOSE r \in m : TRUE)

\* create_refresh_token: INSERT INTO refresh_tokens ... RETURNING *.
insert_refresh_token(id, user_id, h, expires_at) ==
    refresh_tokens \cup
        {[id |-> id, user_id |-> user_id, token_hash |-> h,
          expires_at |-> expires_at, revoked_at |-> None]}

\* Mutant: the UPDATE matches no row.
revoke_refresh_token_no_row(id) == refresh_tokens

\* revoke_refresh_token: UPDATE ... SET revoked_at = NOW() WHERE id = $1.
revoke_refresh_token(id) ==
    {IF r.id = id THEN [r EXCEPT !.revoked_at = Some(now)] ELSE r :
        r \in refresh_tokens}

\* Mutant: the UPDATE has lost its WHERE clause.
revoke_refresh_token_by_hash_no_where(h) ==
    {[r EXCEPT !.revoked_at = Some(now)] : r \in refresh_tokens}

\* revoke_refresh_token_by_hash:
\*   UPDATE ... SET revoked_at = NOW() WHERE token_hash = $1.
revoke_refresh_token_by_hash(h) ==
    {IF r.token_hash = h THEN [r EXCEPT !.revoked_at = Some(now)] ELSE r :
        r \in refresh_tokens}

\* Mutant: the UPDATE has lost its revoked_at IS NULL condition.
revoke_all_user_refresh_tokens_restamp(user_id) ==
    {IF r.user_id = user_id
     THEN [r EXCEPT !.revoked_at = Some(now)] ELSE r : r \in refresh_tokens}

\* Mutant: the UPDATE has lost its user_id condition.
revoke_all_user_refresh_tokens_any_user(user_id) ==
    {IF ~IsSome(r.revoked_at)
     THEN [r EXCEPT !.revoked_at = Some(now)] ELSE r : r \in refresh_tokens}

\* revoke_all_user_refresh_tokens:
\*   UPDATE ... SET revoked_at = NOW() WHERE user_id = $1 AND revoked_at IS NULL.
revoke_all_user_refresh_tokens(user_id) ==
    {IF r.user_id = user_id /\ ~IsSome(r.revoked_at)
     THEN [r EXCEPT !.revoked_at = Some(now)] ELSE r : r \in refresh_tokens}

\* find_magic_link_token_by_hash:
\*   WHERE token_hash = $1 AND used_at IS NULL AND expires_at > NOW().
find_magic_link_token_by_hash(h) ==
    LET m == {r \in magic_link_tokens :
                 r.token_hash = h /\ ~IsSome(r.used_at) /\ r.expires_at > now}
    IN  IF m = {} THEN None ELSE Some(CHOOSE r \in m : TRUE)

\* create_magic_link_token: INSERT INTO magic_link_tokens ... RETURNING *.
create_magic_link_token(id, email, h, expires_at) ==
    magic_link_tokens \cup
        {[id |-> id, email |-> email, token_hash |-> h,
          expires_at |-> expires_at, used_at |-> None]}

\* mark_magic_link_token_used: UPDATE ... SET used_at = NOW() WHERE id = $1.
mark_magic_link_token_used(id) ==
    {IF r.id = id THEN [r EXCEPT !.used_at = Some(now)] ELSE r :
        r \in magic_link_tokens}

\* find_password_reset_token_by_hash:
\*   WHERE token_hash = $1 AND used_at IS NULL AND expires_at > NOW().
find_password_reset_token_by_hash(h) ==
    LET m == {r \in password_reset_tokens :
                 r.token_hash = h /\ ~IsSome(r.used_at) /\ r.expires_at > now}
    IN  IF m = {} THEN None ELSE Some(CHOOSE r \in m : TRUE)

\* create_password_reset_token: INSERT INTO password_reset_tokens ...
create_password_reset_token(id, user_id, h, expires_at) ==
    password_reset_tokens \cup
        {[id |-> id, user_id |-> user_id, token_hash |-> h,
          expires_at |-> expires_at, used_at |-> None]}

\* mark_password_reset_token_used:
\*   UPDATE ... SET used_at = NOW() WHERE id = $1.
mark_password_reset_token_used(id) ==
    {IF r.id = id THEN [r EXCEPT !.used_at = Some(now)] ELSE r :
        r \in password_reset_tokens}

\* ------------------------------------------------------------- request state

IdleCall ==
    [op |-> "none", pc |-> "idle", result |-> "none",
     token |-> None,        \* raw token presented by the caller
     email |-> None, password |-> None, user_id |-> None,
     stored |-> None,       \* row returned by the lookup
     user |-> None,         \* id of the user row the flow holds
     ret |-> None,          \* AuthTokens built by create_tokens
     created |-> None,      \* id of the rotation record this call inserted
     did_revoke |-> FALSE,  \* this call's revoke statement executed
     pre |-> None]          \* what held of the presented token at the start

\* Request p arrives once, after the requests numbered before it.
Ready(p) ==
    /\ calls[p].pc = "idle"
    /\ \A q \in Procs : q < p => calls[q].pc # "idle"

\* The call returns: its locals are dropped; what the caller passed and
\* observed stays.
Return(c, r) ==
    [IdleCall EXCEPT !.op = c.op, !.pc = "done", !.result = r,
                     !.token = c.token,
                     !.user_id = c.user_id, !.pre = c.pre,
                     !.did_revoke = c.did_revoke, !.created = c.created,
                     !.ret = IF r = "Ok" THEN c.ret ELSE None]

\* `?` / return Err(e): the call ends with a typed failure.
Fail(c, e) == Return(c, e)

\* State of the rotation record stored for a raw token.
RecordState(token) ==
    LET m == {r \in refresh_tokens : r.token_hash = hash_token(token)}
    IN  IF m = {} THEN "Missing"
        ELSE LET r == CHOOSE r \in m : TRUE
             IN  IF IsSome(r.revoked_at) THEN "Revoked"
                 ELSE IF ~(r.expires_at > now) THEN "Expired"
                 ELSE "Active"

Ghosts == <<rotated, revoked_all, logged_out>>
Ephemeral == <<magic_link_tokens, password_reset_tokens, mailed, pw_updates>>
Rate == <<rate_limits, rl_calls, rl_log, rl_checks>>
Authn == <<authn, probe>>
Ban == <<enabled, banned, strikes, ip_bans, boot, reqs, sweeper, persist,
         strike_hist, locks>>

\* ----------------------------------------------------- AuthService::create_tokens

\* Mutant: the error of the INSERT is dropped and the pair is handed on.
create_tokens_ignores_insert_error(p, ok, next) ==
    LET c == calls[p]
        uid == Unwrap(c.user)
        rt == create_refresh_token(uid, next_id, now)
        tokens == [access_token |-> create_access_token(uid, next_id, now),
                   refresh_token |-> rt[1]]
        c2 == [c EXCEPT !.ret = Some(tokens), !.created = Some(next_id)]
    IN  /\ refresh_tokens' =
              IF ok
              THEN insert_refresh_token(next_id, uid, rt[2],
                                        now + REFRESH_RECORD_TTL)
              ELSE refresh_tokens
        /\ next_id' = next_id + 1
        /\ IF next = "done"
           THEN /\ calls' = [calls EXCEPT ![p] = Return(c2, "Ok")]
                /\ issued' = issued \cup {rt[1]}
           ELSE /\ calls' = [calls EXCEPT ![p] = [c2 EXCEPT !.pc = next]]
                /\ UNCHANGED issued

\* create_tokens: sign both tokens, INSERT the rotation record, return the
\* pair.  ok is the outcome of the INSERT; on failure `?` ends the flow.
\* next is the position of the caller after the helper returns.
create_tokens(p, ok, next) ==
    LET c == calls[p]
        uid == Unwrap(c.user)
        rt == create_refresh_token(uid, next_id, now)
        tokens == [access_token |-> create_access_token(uid, next_id, now),
                   refresh_token |-> rt[1]]
        c2 == [c EXCEPT !.ret = Some(tokens), !.created = Some(next_id)]
    IN  IF ok
        THEN /\ refresh_tokens' =
                   insert_refresh_token(next_id, uid, rt[2], now + REFRESH_RECORD_TTL)
             /\ next_id' = next_id + 1
             /\ IF next = "done"
                THEN /\ calls' = [calls EXCEPT ![p] =
                                     Return(c2, "Ok")]
                     /\ issued' = issued \cup {rt[1]}
                ELSE /\ calls' = [calls EXCEPT ![p] = [c2 EXCEPT !.pc = next]]
                     /\ UNCHANGED issued
        ELSE /\ calls' = [calls EXCEPT ![p] = Fail(c, "DatabaseError")]
             /\ UNCHANGED <<refresh_tokens, next_id, issued>>

\* ------------------------------------------------------------ AuthService::login

\* What the users table holds for the credentials a login presents.
LoginCase(email, password) ==
    LET rows == {u \in DOMAIN users : users[u].email = email}
    IN  IF rows = {} THEN "unknown"
        ELSE LET u == users[CHOOSE u \in rows : TRUE]
             IN  IF IsSome(u.deleted_at) THEN "deleted"
                 ELSE IF ~IsSome(u.password_hash) THEN "no_password"
                 ELSE IF ~PasswordVerify(password, Unwrap(u.password_hash))
                      THEN "wrong_password"
                 ELSE "match"

StartLogin(p, email, password) ==
    /\ Ready(p)
    /\ calls' = [calls EXCEPT ![p] =
                    [IdleCall EXCEPT !.op = "login", !.pc = "login_find_user",
                                     !.result = "pending",
                                     !.email = Some(email),
                                     !.password = Some(password),
                                     !.pre = Some([case |->
                                         LoginCase(email, password)])]]
    /\ UNCHANGED <<now, users, refresh_tokens, audit_logs, next_id, issued,
                       Ghosts, Ephemeral, Rate, Authn, Ban>>

\* Mutant: an address without a user gets an answer of its own.
LoginFindUser_tells_unknown(p) ==
    LET c == calls[p]
        u == find_by_email(Unwrap(c.email))
    IN  /\ c.pc = "login_find_user"
        /\ calls' = [calls EXCEPT ![p] =
              IF ~IsSome(u) THEN Fail(c, "NotFound")
              ELSE IF ~IsSome(users[Unwrap(u)].password_hash)
                   THEN Fail(c, "InvalidCredentials")
              ELSE IF ~PasswordVerify(Unwrap(c.password),
                                      Unwrap(users[Unwrap(u)].password_hash))
                   THEN Fail(c, "InvalidCredentials")
              ELSE [c EXCEPT !.user = u, !.pc = "login_create_tokens"]]
        /\ UNCHANGED <<now, users, refresh_tokens, audit_logs, next_id, issued,
                       Ghosts, Ephemeral, Rate, Authn, Ban>>

\* find_by_email, the deleted check and the password check.
LoginFindUser(p) ==
    LET c == calls[p]
        u == find_by_email(Unwrap(c.email))
    IN  /\ c.pc = "login_find_user"
        /\ calls' = [calls EXCEPT ![p] =
              IF ~IsSome(u) THEN Fail(c, "InvalidCredentials")
              ELSE IF IsSome(users[Unwrap(u)].deleted_at)
                   THEN Fail(c, "InvalidCredentials")
              ELSE IF ~IsSome(users[Unwrap(u)].password_hash)
                   THEN Fail(c, "InvalidCredentials")
              ELSE IF ~PasswordVerify(Unwrap(c.password),
                                      Unwrap(users[Unwrap(u)].password_hash))
                   THEN Fail(c, "InvalidCredentials")
              ELSE [c EXCEPT !.user = u, !.pc = "login_create_tokens"]]
        /\ UNCHANGED <<now, users, refresh_tokens, audit_logs, next_id, issued,
                       Ghosts, Ephemeral, Rate, Authn, Ban>>

LoginCreateTokens(p) ==
    /\ calls[p].pc = "login_create_tokens"
    /\ \E ok \in BOOLEAN : create_tokens(p, ok, "login_update_last_login")
    /\ UNCHANGED <<now, users, audit_logs, Ghosts, Ephemeral, Rate, Authn, Ban>>

LoginUpdateLastLogin(p) ==
    LET c == calls[p]
    IN  /\ c.pc = "login_update_last_login"
        /\ \E ok \in BOOLEAN :
              IF ok
              THEN /\ users' = update_last_login(Unwrap(c.user))
                   /\ calls' = [calls EXCEPT ![p] = [c EXCEPT !.pc = "login_audit"]]
              ELSE /\ calls' = [calls EXCEPT ![p] = Fail(c, "DatabaseError")]
                   /\ UNCHANGED users
        /\ UNCHANGED <<now, refresh_tokens, audit_logs, next_id, issued,
                       Ghosts, Ephemeral, Rate, Authn, Ban>>

LoginAudit(p) ==
    LET c == calls[p]
    IN  /\ c.pc = "login_audit"
        /\ \E ok \in BOOLEAN :
              IF ok
              THEN /\ audit_logs' = audit_logs \cup {<<"UserLogin", Unwrap(c.user)>>}
                   /\ calls' = [calls EXCEPT ![p] =
                                   Return(c, "Ok")]
                   /\ issued' = issued \cup {Unwrap(c.ret).refresh_token}
              ELSE /\ calls' = [calls EXCEPT ![p] = Fail(c, "DatabaseError")]
                   /\ UNCHANGED <<audit_logs, issued>>
        /\ UNCHANGED <<now, users, refresh_tokens, next_id, Ghosts, Ephemeral, Rate, Authn, Ban>>

\* --------------------------------------------------- AuthService::refresh_tokens

\* The call starts: verify_refresh_token and hash_token run before the
\* first store access.
StartRefresh(p, token) ==
    LET v == verify_refresh_token(token, now)
        c == [IdleCall EXCEPT
                !.op = "refresh_tokens", !.result = "pending",
                !.token = Some(token), !.pc = "refresh_find",
                !.pre = Some([rotated |-> token \in rotated,
                              state |-> RecordState(token),
                              logged_out |-> token \in logged_out,
                              revoked_all |->
                                 \E r \in refresh_tokens :
                                    /\ r.token_hash = hash_token(token)
                                    /\ r.id \in revoked_all])]
    IN  /\ Ready(p)
        /\ calls' = [calls EXCEPT ![p] = IF v = "Ok" THEN c ELSE Fail(c, v)]
        /\ UNCHANGED <<now, users, refresh_tokens, audit_logs, next_id, issued,
                       Ghosts, Ephemeral, Rate, Authn, Ban>>

\* Mutant: the flow trusts the verified signature and looks the record up
\* without checking its state.
RefreshFind_signature_only(p) ==
    LET c == calls[p]
        m == {r \in refresh_tokens : r.token_hash = hash_token(Unwrap(c.token))}
    IN  /\ c.pc = "refresh_find"
        /\ calls' = [calls EXCEPT ![p] =
              IF m = {} THEN Fail(c, "InvalidCredentials")
              ELSE [c EXCEPT !.stored = Some(CHOOSE r \in m : TRUE),
                             !.user = Some(Unwrap(c.token).sub),
                             !.pc = "refresh_revoke"]]
        /\ UNCHANGED <<now, users, refresh_tokens, audit_logs, next_id, issued,
                       Ghosts, Ephemeral, Rate, Authn, Ban>>

\* find_refresh_token_by_hash, stored_token.is_valid(), find_by_id(claims.sub).
\* The user lookup reads a row that no modelled operation removes, so it is
\* taken in the same step as the token lookup.
RefreshFind(p) ==
    LET c == calls[p]
        stored_token == find_refresh_token_by_hash(hash_token(Unwrap(c.token)))
        u == find_by_id(Unwrap(c.token).sub)
    IN  /\ c.pc = "refresh_find"
        /\ calls' = [calls EXCEPT ![p] =
              IF ~IsSome(stored_token) THEN Fail(c, "InvalidCredentials")
              ELSE IF ~RefreshToken_is_valid(Unwrap(stored_token), now)
                   THEN Fail(c, "TokenExpired")
              ELSE IF ~IsSome(u) THEN Fail(c, "InvalidCredentials")
              ELSE [c EXCEPT !.stored = stored_token, !.user = u,
                             !.pc = "refresh_revoke"]]
        /\ UNCHANGED <<now, users, refresh_tokens, audit_logs, next_id, issued,
                       Ghosts, Ephemeral, Rate, Authn, Ban>>

\* revoke_refresh_token(stored_token.id).
RefreshRevoke(p) ==
    LET c == calls[p]
    IN  /\ c.pc = "refresh_revoke"
        /\ \E ok \in BOOLEAN :
              IF ok
              THEN /\ refresh_tokens' = revoke_refresh_token(Unwrap(c.stored).id)
                   /\ calls' = [calls EXCEPT ![p] =
                         [c EXCEPT !.did_revoke = TRUE, !.pc = "refresh_create_tokens"]]
              ELSE /\ calls' = [calls EXCEPT ![p] = Fail(c, "DatabaseError")]
                   /\ UNCHANGED refresh_tokens
        /\ UNCHANGED <<now, users, audit_logs, next_id, issued,
                       Ghosts, Ephemeral, Rate, Authn, Ban>>

RefreshCreateTokens(p) ==
    /\ calls[p].pc = "refresh_create_tokens"
    /\ \E ok \in BOOLEAN : create_tokens(p, ok, "done")
    /\ rotated' = IF calls'[p].result = "Ok"
                  THEN rotated \cup {Unwrap(calls[p].token)} ELSE rotated
    /\ UNCHANGED <<now, users, audit_logs, revoked_all,
                   logged_out, Ephemeral, Rate, Authn, Ban>>

\* The audit tail shared by logout and logout_all: find_by_id(user_id) and,
\* when the user exists, AuditLogRepository::create.
audit_if_user(p, action) ==
    LET c == calls[p]
        u == find_by_id(Unwrap(c.user_id))
    IN  \E ok \in BOOLEAN :
           IF ~IsSome(u)
           THEN /\ calls' = [calls EXCEPT ![p] =
                                Return(c, "Ok")]
                /\ UNCHANGED audit_logs
           ELSE IF ok
           THEN /\ audit_logs' = audit_logs \cup {<<action, Unwrap(u)>>}
                /\ calls' = [calls EXCEPT ![p] =
                                Return(c, "Ok")]
           ELSE /\ calls' = [calls EXCEPT ![p] = Fail(c, "DatabaseError")]
                /\ UNCHANGED audit_logs

\* ----------------------------------------------------------- AuthService::logout

StartLogout(p, token, user_id) ==
    /\ Ready(p)
    /\ calls' = [calls EXCEPT ![p] =
                    [IdleCall EXCEPT !.op = "logout", !.pc = "logout_revoke",
                                     !.result = "pending",
                                     !.token = Some(token),
                                     !.user_id = Some(user_id)]]
    /\ UNCHANGED <<now, users, refresh_tokens, audit_logs, next_id, issued,
                       Ghosts, Ephemeral, Rate, Authn, Ban>>

\* revoke_refresh_token_by_hash(hash_token(refresh_token)).
LogoutRevoke(p) ==
    LET c == calls[p]
    IN  /\ c.pc = "logout_revoke"
        /\ \E ok \in BOOLEAN :
              IF ok
              THEN /\ refresh_tokens' =
                         revoke_refresh_token_by_hash(hash_token(Unwrap(c.token)))
                   /\ logged_out' = logged_out \cup {Unwrap(c.token)}
                   /\ calls' = [calls EXCEPT ![p] =
                         [c EXCEPT !.did_revoke = TRUE, !.pc = "logout_audit"]]
              ELSE /\ calls' = [calls EXCEPT ![p] = Fail(c, "DatabaseError")]
                   /\ UNCHANGED <<refresh_tokens, logged_out>>
        /\ UNCHANGED <<now, users, audit_logs, next_id, issued,
                       rotated, revoked_all, Ephemeral, Rate, Authn, Ban>>

LogoutAudit(p) ==
    /\ calls[p].pc = "logout_audit"
    /\ audit_if_user(p, "UserLogout")
    /\ UNCHANGED <<now, users, refresh_tokens, next_id, issued,
                   Ghosts, Ephemeral, Rate, Authn, Ban>>

\* ------------------------------------------------------- AuthService::logout_all

StartLogoutAll(p, user_id) ==
    /\ Ready(p)
    /\ calls' = [calls EXCEPT ![p] =
                    [IdleCall EXCEPT !.op = "logout_all", !.pc = "logout_all_revoke",
                                     !.result = "pending",
                                     !.user_id = Some(user_id),
                                     !.pre = Some([after_logout_all |->
                                        \E q \in Procs :
                                           /\ calls[q].op = "logout_all"
                                           /\ calls[q].pc = "done"
                                           /\ calls[q].result = "Ok"
                                           /\ calls[q].user_id =
                                                 Some(user_id)])]]
    /\ UNCHANGED <<now, users, refresh_tokens, audit_logs, next_id, issued,
                       Ghosts, Ephemeral, Rate, Authn, Ban>>

\* revoke_all_user_refresh_tokens(user_id).
LogoutAllRevoke(p) ==
    LET c == calls[p]
        uid == Unwrap(c.user_id)
    IN  /\ c.pc = "logout_all_revoke"
        /\ \E ok \in BOOLEAN :
              IF ok
              THEN /\ refresh_tokens' = revoke_all_user_refresh_tokens(uid)
                   /\ revoked_all' = revoked_all \cup
                         {r.id : r \in {x \in refresh_tokens :
                             x.user_id = uid /\ ~IsSome(x.revoked_at)}}
                   /\ calls' = [calls EXCEPT ![p] =
                         [c EXCEPT !.did_revoke = TRUE, !.pc = "logout_all_audit"]]
              ELSE /\ calls' = [calls EXCEPT ![p] = Fail(c, "DatabaseError")]
                   /\ UNCHANGED <<refresh_tokens, revoked_all>>
        /\ UNCHANGED <<now, users, audit_logs, next_id, issued,
                       rotated, logged_out, Ephemeral, Rate, Authn, Ban>>

LogoutAllAudit(p) ==
    /\ calls[p].pc = "logout_all_audit"
    /\ audit_if_user(p, "UserLogoutAll")
    /\ UNCHANGED <<now, users, refresh_tokens, next_id, issued,
                   Ghosts, Ephemeral, Rate, Authn, Ban>>

\* ----------------------------------------------- AuthService::request_magic_link

StartRequestMagicLink(p, email) ==
    /\ Ready(p)
    /\ calls' = [calls EXCEPT ![p] =
                    [IdleCall EXCEPT !.op = "request_magic_link",
                                     !.pc = "request_magic_link_create",
                                     !.result = "pending",
                                     !.email = Some(email),
                                     !.pre = Some([known |->
                                         IsSome(find_by_email(email))])]]
    /\ UNCHANGED <<now, users, refresh_tokens, audit_logs, next_id, issued,
                   Ghosts, Ephemeral, Rate, Authn, Ban>>

\* generate_secure_token, hash_token, create_magic_link_token; the raw token
\* is returned whether or not the address belongs to a user.
RequestMagicLinkCreate(p) ==
    LET c == calls[p]
        token == generate_secure_token(next_id)
    IN  /\ c.pc = "request_magic_link_create"
        /\ \E ok \in BOOLEAN :
              IF ok
              THEN /\ magic_link_tokens' =
                         create_magic_link_token(next_id, Unwrap(c.email),
                                                 hash_token(token),
                                                 now + MAGIC_LINK_TTL)
                   /\ next_id' = next_id + 1
                   /\ mailed' = mailed \cup {token}
                   /\ calls' = [calls EXCEPT ![p] = Return(c, "Ok")]
              ELSE /\ calls' = [calls EXCEPT ![p] = Fail(c, "DatabaseError")]
                   /\ UNCHANGED <<magic_link_tokens, next_id, mailed>>
        /\ UNCHANGED <<now, users, refresh_tokens, password_reset_tokens,
                       audit_logs, issued, Ghosts, pw_updates,
                       Rate, Authn, Ban>>

\* ------------------------------------------------ AuthService::verify_magic_link

StartVerifyMagicLink(p, token) ==
    /\ Ready(p)
    /\ calls' = [calls EXCEPT ![p] =
                    [IdleCall EXCEPT !.op = "verify_magic_link",
                                     !.pc = "verify_magic_link_find",
                                     !.result = "pending",
                                     !.token = Some(token)]]
    /\ UNCHANGED <<now, users, refresh_tokens, audit_logs, next_id, issued,
                   Ghosts, Ephemeral, Rate, Authn, Ban>>

\* find_magic_link_token_by_hash and magic_token.is_valid().
VerifyMagicLinkFind(p) ==
    LET c == calls[p]
        magic_token ==
            find_magic_link_token_by_hash(hash_token(Unwrap(c.token)))
    IN  /\ c.pc = "verify_magic_link_find"
        /\ calls' = [calls EXCEPT ![p] =
              IF ~IsSome(magic_token) THEN Fail(c, "InvalidCredentials")
              ELSE IF ~MagicLinkToken_is_valid(Unwrap(magic_token), now)
                   THEN Fail(c, "TokenExpired")
              ELSE [c EXCEPT !.stored = magic_token,
                             !.pc = "verify_magic_link_mark_used"]]
        /\ UNCHANGED <<now, users, refresh_tokens, audit_logs, next_id, issued,
                       Ghosts, Ephemeral, Rate, Authn, Ban>>

\* mark_magic_link_token_used(magic_token.id).
VerifyMagicLinkMarkUsed(p) ==
    LET c == calls[p]
    IN  /\ c.pc = "verify_magic_link_mark_used"
        /\ \E ok \in BOOLEAN :
              IF ok
              THEN /\ magic_link_tokens' =
                         mark_magic_link_token_used(Unwrap(c.stored).id)
                   /\ calls' = [calls EXCEPT ![p] =
                         [c EXCEPT !.did_revoke = TRUE,
                                   !.pc = "verify_magic_link_find_user"]]
              ELSE /\ calls' = [calls EXCEPT ![p] = Fail(c, "DatabaseError")]
                   /\ UNCHANGED magic_link_tokens
        /\ UNCHANGED <<now, users, refresh_tokens, password_reset_tokens,
                       audit_logs, next_id, issued, mailed, Ghosts,
                       pw_updates, Rate, Authn, Ban>>

\* find_by_email(magic_token.email): the match on the user.
VerifyMagicLinkFindUser(p) ==
    LET c == calls[p]
        u == find_by_email(Unwrap(c.stored).email)
    IN  /\ c.pc = "verify_magic_link_find_user"
        /\ calls' = [calls EXCEPT ![p] =
              IF IsSome(u)
              THEN [c EXCEPT !.user = u,
                             !.pc = "verify_magic_link_set_verified"]
              ELSE [c EXCEPT !.pc = "verify_magic_link_create_user"]]
        /\ UNCHANGED <<now, users, refresh_tokens, audit_logs, next_id, issued,
                       Ghosts, Ephemeral, Rate, Authn, Ban>>

\* Some(user): set_email_verified(user.id), then find_by_id(user.id).unwrap().
VerifyMagicLinkSetVerified(p) ==
    LET c == calls[p]
    IN  /\ c.pc = "verify_magic_link_set_verified"
        /\ \E ok \in BOOLEAN :
              IF ok
              THEN /\ users' = set_email_verified(Unwrap(c.user))
                   /\ calls' = [calls EXCEPT ![p] =
                         [c EXCEPT !.pc = "verify_magic_link_create_tokens"]]
              ELSE /\ calls' = [calls EXCEPT ![p] = Fail(c, "DatabaseError")]
                   /\ UNCHANGED users
        /\ UNCHANGED <<now, refresh_tokens, audit_logs, next_id, issued,
                       Ghosts, Ephemeral, Rate, Authn, Ban>>

\* None: UserRepository::create of a passwordless user.  The INSERT fails
\* with Conflict when another request has registered the address meanwhile.
VerifyMagicLinkCreateUser(p) ==
    LET c == calls[p]
        email == Unwrap(c.stored).email
        taken == \E u \in DOMAIN users : users[u].email = email
    IN  /\ c.pc = "verify_magic_link_create_user"
        /\ \E ok \in BOOLEAN :
              IF taken
              THEN /\ calls' = [calls EXCEPT ![p] = Fail(c, "Conflict")]
                   /\ UNCHANGED users
              ELSE IF ok
              THEN /\ users' = UserRepository_create(email, None)
                   /\ calls' = [calls EXCEPT ![p] =
                         [c EXCEPT !.user = Some(NewUserId),
                                   !.pc = "verify_magic_link_create_tokens"]]
              ELSE /\ calls' = [calls EXCEPT ![p] = Fail(c, "DatabaseError")]
                   /\ UNCHANGED users
        /\ UNCHANGED <<now, refresh_tokens, audit_logs, next_id, issued,
                       Ghosts, Ephemeral, Rate, Authn, Ban>>

VerifyMagicLinkCreateTokens(p) ==
    /\ calls[p].pc = "verify_magic_link_create_tokens"
    /\ \E ok \in BOOLEAN :
          create_tokens(p, ok, "verify_magic_link_update_last_login")
    /\ UNCHANGED <<now, users, audit_logs, Ghosts, Ephemeral, Rate, Authn, Ban>>

VerifyMagicLinkUpdateLastLogin(p) ==
    LET c == calls[p]
    IN  /\ c.pc = "verify_magic_link_update_last_login"
        /\ \E ok \in BOOLEAN :
              IF ok
              THEN /\ users' = update_last_login(Unwrap(c.user))
                   /\ calls' = [calls EXCEPT ![p] =
                         [c EXCEPT !.pc = "verify_magic_link_audit"]]
              ELSE /\ calls' = [calls EXCEPT ![p] = Fail(c, "DatabaseError")]
                   /\ UNCHANGED users
        /\ UNCHANGED <<now, refresh_tokens, audit_logs, next_id, issued,
                       Ghosts, Ephemeral, Rate, Authn, Ban>>

VerifyMagicLinkAudit(p) ==
    LET c == calls[p]
    IN  /\ c.pc = "verify_magic_link_audit"
        /\ \E ok \in BOOLEAN :
              IF ok
              THEN /\ audit_logs' =
                         audit_logs \cup {<<"MagicLinkUsed", Unwrap(c.user)>>}
                   /\ calls' = [calls EXCEPT ![p] = Return(c, "Ok")]
                   /\ issued' = issued \cup {Unwrap(c.ret).refresh_token}
              ELSE /\ calls' = [calls EXCEPT ![p] = Fail(c, "DatabaseError")]
                   /\ UNCHANGED <<audit_logs, issued>>
        /\ UNCHANGED <<now, users, refresh_tokens, next_id, Ghosts, Ephemeral, Rate, Authn, Ban>>

\* ------------------------------------------- AuthService::request_password_reset

StartRequestPasswordReset(p, email) ==
    /\ Ready(p)
    /\ calls' = [calls EXCEPT ![p] =
                    [IdleCall EXCEPT !.op = "request_password_reset",
                                     !.pc = "request_password_reset_find_user",
                                     !.result = "pending",
                                     !.email = Some(email),
                                     !.pre = Some([known |->
                                         IsSome(find_by_email(email))])]]
    /\ UNCHANGED <<now, users, refresh_tokens, audit_logs, next_id, issued,
                   Ghosts, Ephemeral, Rate, Authn, Ban>>

\* find_by_email; an unknown address or a passwordless user gets Ok(None).
RequestPasswordResetFindUser(p) ==
    LET c == calls[p]
        u == find_by_email(Unwrap(c.email))
    IN  /\ c.pc = "request_password_reset_find_user"
        /\ calls' = [calls EXCEPT ![p] =
              IF ~IsSome(u) THEN Return(c, "Ok")
              ELSE IF ~IsSome(users[Unwrap(u)].password_hash)
                   THEN Return(c, "Ok")
              ELSE [c EXCEPT !.user = u,
                             !.pc = "request_password_reset_create"]]
        /\ UNCHANGED <<now, users, refresh_tokens, audit_logs, next_id, issued,
                       Ghosts, Ephemeral, Rate, Authn, Ban>>

\* generate_secure_token, hash_token, create_password_reset_token.
RequestPasswordResetCreate(p) ==
    LET c == calls[p]
        token == generate_secure_token(next_id)
    IN  /\ c.pc = "request_password_reset_create"
        /\ \E ok \in BOOLEAN :
              IF ok
              THEN /\ password_reset_tokens' =
                         create_password_reset_token(next_id, Unwrap(c.user),
                                                     hash_token(token),
                                                     now + PASSWORD_RESET_TTL)
                   /\ next_id' = next_id + 1
                   /\ calls' = [calls EXCEPT ![p] =
                         [c EXCEPT !.token = Some(token),
                                   !.pc = "request_password_reset_audit"]]
              ELSE /\ calls' = [calls EXCEPT ![p] = Fail(c, "DatabaseError")]
                   /\ UNCHANGED <<password_reset_tokens, next_id>>
        /\ UNCHANGED <<now, users, refresh_tokens, magic_link_tokens,
                       audit_logs, issued, mailed, Ghosts, pw_updates,
                       Rate, Authn, Ban>>

\* AuditLogRepository::create(PasswordResetRequested), then Ok(Some(token)).
RequestPasswordResetAudit(p) ==
    LET c == calls[p]
    IN  /\ c.pc = "request_password_reset_audit"
        /\ \E ok \in BOOLEAN :
              IF ok
              THEN /\ audit_logs' = audit_logs \cup
                         {<<"PasswordResetRequested", Unwrap(c.user)>>}
                   /\ mailed' = mailed \cup {Unwrap(c.token)}
                   /\ calls' = [calls EXCEPT ![p] = Return(c, "Ok")]
              ELSE /\ calls' = [calls EXCEPT ![p] =
                         Fail([c EXCEPT !.token = None], "DatabaseError")]
                   /\ UNCHANGED <<audit_logs, mailed>>
        /\ UNCHANGED <<now, users, refresh_tokens, magic_link_tokens,
                       password_reset_tokens, next_id, issued, Ghosts,
                       pw_updates, Rate, Authn, Ban>>

\* ----------------------------------------------- AuthService::verify_reset_token

StartVerifyResetToken(p, token) ==
    /\ Ready(p)
    /\ calls' = [calls EXCEPT ![p] =
                    [IdleCall EXCEPT !.op = "verify_reset_token",
                                     !.pc = "verify_reset_token_find",
                                     !.result = "pending",
                                     !.token = Some(token)]]
    /\ UNCHANGED <<now, users, refresh_tokens, audit_logs, next_id, issued,
                   Ghosts, Ephemeral, Rate, Authn, Ban>>

\* Mutant: the check consumes the token it accepts.
VerifyResetTokenFind_consumes(p) ==
    LET c == calls[p]
        reset_token ==
            find_password_reset_token_by_hash(hash_token(Unwrap(c.token)))
    IN  /\ c.pc = "verify_reset_token_find"
        /\ calls' = [calls EXCEPT ![p] =
              IF ~IsSome(reset_token) THEN Fail(c, "InvalidCredentials")
              ELSE Return([c EXCEPT
                              !.user_id = Some(Unwrap(reset_token).user_id)],
                          "Ok")]
        /\ password_reset_tokens' =
              IF IsSome(reset_token)
              THEN mark_password_reset_token_used(Unwrap(reset_token).id)
              ELSE password_reset_tokens
        /\ UNCHANGED <<now, users, refresh_tokens, magic_link_tokens,
                       audit_logs, next_id, issued, mailed, Ghosts,
                       pw_updates, Rate, Authn, Ban>>

\* find_password_reset_token_by_hash and is_valid(); nothing is written.
VerifyResetTokenFind(p) ==
    LET c == calls[p]
        reset_token ==
            find_password_reset_token_by_hash(hash_token(Unwrap(c.token)))
    IN  /\ c.pc = "verify_reset_token_find"
        /\ calls' = [calls EXCEPT ![p] =
              IF ~IsSome(reset_token) THEN Fail(c, "InvalidCredentials")
              ELSE IF ~PasswordResetToken_is_valid(Unwrap(reset_token), now)
                   THEN Fail(c, "TokenExpired")
              ELSE Return([c EXCEPT
                              !.user_id = Some(Unwrap(reset_token).user_id)],
                          "Ok")]
        /\ UNCHANGED <<now, users, refresh_tokens, audit_logs, next_id, issued,
                       Ghosts, Ephemeral, Rate, Authn, Ban>>

\* ------------------------------------------ AuthService::complete_password_reset

\* The call starts: validate_strength(new_password) runs before the first
\* store access.
StartCompletePasswordReset(p, token, new_password) ==
    LET c == [IdleCall EXCEPT !.op = "complete_password_reset",
                              !.pc = "complete_password_reset_find",
                              !.result = "pending",
                              !.token = Some(token),
                              !.password = Some(new_password),
                              !.pre = Some([mark |-> next_id])]
    IN  /\ Ready(p)
        /\ calls' = [calls EXCEPT ![p] =
              IF validate_strength(new_password) THEN c
              ELSE Fail(c, "ValidationError")]
        /\ UNCHANGED <<now, users, refresh_tokens, audit_logs, next_id, issued,
                       Ghosts, Ephemeral, Rate, Authn, Ban>>

\* find_password_reset_token_by_hash and reset_token.is_valid().
CompletePasswordResetFind(p) ==
    LET c == calls[p]
        reset_token ==
            find_password_reset_token_by_hash(hash_token(Unwrap(c.token)))
    IN  /\ c.pc = "complete_password_reset_find"
        /\ calls' = [calls EXCEPT ![p] =
              IF ~IsSome(reset_token) THEN Fail(c, "InvalidCredentials")
              ELSE IF ~PasswordResetToken_is_valid(Unwrap(reset_token), now)
                   THEN Fail(c, "TokenExpired")
              ELSE [c EXCEPT !.stored = reset_token,
                             !.user_id = Some(Unwrap(reset_token).user_id),
                             !.pc = "complete_password_reset_find_user"]]
        /\ UNCHANGED <<now, users, refresh_tokens, audit_logs, next_id, issued,
                       Ghosts, Ephemeral, Rate, Authn, Ban>>

\* find_by_id(reset_token.user_id), validate_not_contains_email, hash.
CompletePasswordResetFindUser(p) ==
    LET c == calls[p]
        u == find_by_id(Unwrap(c.stored).user_id)
    IN  /\ c.pc = "complete_password_reset_find_user"
        /\ calls' = [calls EXCEPT ![p] =
              IF ~IsSome(u) THEN Fail(c, "NotFound")
              ELSE IF ~validate_not_contains_email(Unwrap(c.password),
                                                   users[Unwrap(u)].email)
                   THEN Fail(c, "ValidationError")
              ELSE [c EXCEPT !.user = u,
                             !.pc = "complete_password_reset_update_password"]]
        /\ UNCHANGED <<now, users, refresh_tokens, audit_logs, next_id, issued,
                       Ghosts, Ephemeral, Rate, Authn, Ban>>

\* update_password(user.id, password_hash).
CompletePasswordResetUpdatePassword(p) ==
    LET c == calls[p]
    IN  /\ c.pc = "complete_password_reset_update_password"
        /\ \E ok \in BOOLEAN :
              IF ok
              THEN /\ users' = update_password(Unwrap(c.user),
                                    PasswordHash(Unwrap(c.password)))
                   /\ pw_updates' = pw_updates \cup {<<Unwrap(c.token), p>>}
                   /\ calls' = [calls EXCEPT ![p] =
                         [c EXCEPT !.pc = "complete_password_reset_mark_used"]]
              ELSE /\ calls' = [calls EXCEPT ![p] = Fail(c, "DatabaseError")]
                   /\ UNCHANGED <<users, pw_updates>>
        /\ UNCHANGED <<now, refresh_tokens, magic_link_tokens,
                       password_reset_tokens, audit_logs, next_id, issued,
                       mailed, Ghosts, Rate, Authn, Ban>>

\* mark_password_reset_token_used(reset_token.id).
CompletePasswordResetMarkUsed(p) ==
    LET c == calls[p]
    IN  /\ c.pc = "complete_password_reset_mark_used"
        /\ \E ok \in BOOLEAN :
              IF ok
              THEN /\ password_reset_tokens' =
                         mark_password_reset_token_used(Unwrap(c.stored).id)
                   /\ calls' = [calls EXCEPT ![p] =
                         [c EXCEPT !.did_revoke = TRUE,
                                   !.pc = "complete_password_reset_revoke_all"]]
              ELSE /\ calls' = [calls EXCEPT ![p] = Fail(c, "DatabaseError")]
                   /\ UNCHANGED password_reset_tokens
        /\ UNCHANGED <<now, users, refresh_tokens, magic_link_tokens,
                       audit_logs, next_id, issued, mailed, Ghosts,
                       pw_updates, Rate, Authn, Ban>>

\* revoke_all_user_refresh_tokens(user.id).
CompletePasswordResetRevokeAll(p) ==
    LET c == calls[p]
        uid == Unwrap(c.user)
    IN  /\ c.pc = "complete_password_reset_revoke_all"
        /\ \E ok \in BOOLEAN :
              IF ok
              THEN /\ refresh_tokens' = revoke_all_user_refresh_tokens(uid)
                   /\ revoked_all' = revoked_all \cup
                         {r.id : r \in {x \in refresh_tokens :
                             x.user_id = uid /\ ~IsSome(x.revoked_at)}}
                   /\ calls' = [calls EXCEPT ![p] =
                         [c EXCEPT !.pc = "complete_password_reset_audit"]]
              ELSE /\ calls' = [calls EXCEPT ![p] = Fail(c, "DatabaseError")]
                   /\ UNCHANGED <<refresh_tokens, revoked_all>>
        /\ UNCHANGED <<now, users, audit_logs, next_id, issued,
                       rotated, logged_out, Ephemeral, Rate, Authn, Ban>>

\* AuditLogRepository::create(PasswordResetCompleted), then Ok(()).
CompletePasswordResetAudit(p) ==
    LET c == calls[p]
    IN  /\ c.pc = "complete_password_reset_audit"
        /\ \E ok \in BOOLEAN :
              IF ok
              THEN /\ audit_logs' = audit_logs \cup
                         {<<"PasswordResetCompleted", Unwrap(c.user)>>}
                   /\ calls' = [calls EXCEPT ![p] = Return(c, "Ok")]
              ELSE /\ calls' = [calls EXCEPT ![p] = Fail(c, "DatabaseError")]
                   /\ UNCHANGED audit_logs
        /\ UNCHANGED <<now, users, refresh_tokens, next_id, issued,
                       Ghosts, Ephemeral, Rate, Authn, Ban>>

\* -------------------------------------------------- AuthService::change_password

StartChangePassword(p, user_id, current_password, new_password) ==
    /\ Ready(p)
    /\ calls' = [calls EXCEPT ![p] =
                    [IdleCall EXCEPT !.op = "change_password",
                                     !.pc = "change_password_find_user",
                                     !.result = "pending",
                                     !.user_id = Some(user_id),
                                     !.password = Some(<<current_password,
                                                         new_password>>),
                                     !.pre = Some([mark |-> next_id])]]
    /\ UNCHANGED <<now, users, refresh_tokens, audit_logs, next_id, issued,
                   Ghosts, Ephemeral, Rate, Authn, Ban>>

\* find_by_id, the check of the current password, validate_strength,
\* validate_not_contains_email and hash.
ChangePasswordFindUser(p) ==
    LET c == calls[p]
        u == find_by_id(Unwrap(c.user_id))
        current_password == Unwrap(c.password)[1]
        new_password == Unwrap(c.password)[2]
    IN  /\ c.pc = "change_password_find_user"
        /\ calls' = [calls EXCEPT ![p] =
              IF ~IsSome(u) THEN Fail(c, "NotFound")
              ELSE IF ~IsSome(users[Unwrap(u)].password_hash)
                   THEN Fail(c, "ValidationError")
              ELSE IF ~PasswordVerify(current_password,
                                      Unwrap(users[Unwrap(u)].password_hash))
                   THEN Fail(c, "ValidationError")
              ELSE IF ~validate_strength(new_password)
                   THEN Fail(c, "ValidationError")
              ELSE IF ~validate_not_contains_email(new_password,
                                                   users[Unwrap(u)].email)
                   THEN Fail(c, "ValidationError")
              ELSE [c EXCEPT !.user = u,
                             !.pc = "change_password_update_password"]]
        /\ UNCHANGED <<now, users, refresh_tokens, audit_logs, next_id, issued,
                       Ghosts, Ephemeral, Rate, Authn, Ban>>

\* update_password(user_id, new_hash).
ChangePasswordUpdatePassword(p) ==
    LET c == calls[p]
    IN  /\ c.pc = "change_password_update_password"
        /\ \E ok \in BOOLEAN :
              IF ok
              THEN /\ users' = update_password(Unwrap(c.user_id),
                                    PasswordHash(Unwrap(c.password)[2]))
                   /\ calls' = [calls EXCEPT ![p] =
                         [c EXCEPT !.pc = "change_password_audit"]]
              ELSE /\ calls' = [calls EXCEPT ![p] = Fail(c, "DatabaseError")]
                   /\ UNCHANGED users
        /\ UNCHANGED <<now, refresh_tokens, audit_logs, next_id, issued,
                       Ghosts, Ephemeral, Rate, Authn, Ban>>

\* AuditLogRepository::create(PasswordChanged), then Ok(()).
ChangePasswordAudit(p) ==
    LET c == calls[p]
    IN  /\ c.pc = "change_password_audit"
        /\ \E ok \in BOOLEAN :
              IF ok
              THEN /\ audit_logs' = audit_logs \cup
                         {<<"PasswordChanged", Unwrap(c.user)>>}
                   /\ calls' = [calls EXCEPT ![p] = Return(c, "Ok")]
              ELSE /\ calls' = [calls EXCEPT ![p] = Fail(c, "DatabaseError")]
                   /\ UNCHANGED audit_logs
        /\ UNCHANGED <<now, users, refresh_tokens, next_id, issued,
                       Ghosts, Ephemeral, Rate, Authn, Ban>>

\* ------------------------------------------------------- RateLimitRepository

\* Mutant: the CASE has lost its reset branch.
rate_limits_upsert_no_reset(key, window_start) ==
    LET row == rate_limits[key]
    IN  [rate_limits EXCEPT ![key] =
            IF ~IsSome(row)
            THEN Some([count |-> 1, window_start |-> now])
            ELSE Some([count |-> Unwrap(row).count + 1,
                       window_start |-> Unwrap(row).window_start])]

\* Mutant: the increment reads EXCLUDED.count, the count of the row that
\* was to be inserted, instead of the stored count.
rate_limits_upsert_excluded_count(key, window_start) ==
    LET row == rate_limits[key]
    IN  [rate_limits EXCEPT ![key] =
            IF ~IsSome(row)
            THEN Some([count |-> 1, window_start |-> now])
            ELSE IF Unwrap(row).window_start < window_start
            THEN Some([count |-> 1, window_start |-> now])
            ELSE Some([count |-> 1 + 1,
                       window_start |-> Unwrap(row).window_start])]

\* Mutant: a sliding window, every increment moves window_start to NOW().
rate_limits_upsert_sliding(key, window_start) ==
    LET row == rate_limits[key]
    IN  [rate_limits EXCEPT ![key] =
            IF ~IsSome(row)
            THEN Some([count |-> 1, window_start |-> now])
            ELSE IF Unwrap(row).window_start < window_start
            THEN Some([count |-> 1, window_start |-> now])
            ELSE Some([count |-> Unwrap(row).count + 1,
                       window_start |-> now])]

\* The statement of check_and_increment:
\*   INSERT ... VALUES ($1, $2, 1, NOW()) ON CONFLICT (key, action) DO UPDATE
\*   SET count = CASE WHEN window_start < $3 THEN 1 ELSE count + 1 END,
\*       window_start = CASE WHEN window_start < $3 THEN NOW()
\*                      ELSE window_start END.
rate_limits_upsert(key, window_start) ==
    LET row == rate_limits[key]
    IN  [rate_limits EXCEPT ![key] =
            IF ~IsSome(row)
            THEN Some([count |-> 1, window_start |-> now])
            ELSE IF Unwrap(row).window_start < window_start
            THEN Some([count |-> 1, window_start |-> now])
            ELSE Some([count |-> Unwrap(row).count + 1,
                       window_start |-> Unwrap(row).window_start])]

IdleRateCall ==
    [pc |-> "idle", result |-> "none", key |-> None,
     window_start |-> None,   \* Utc::now() - window_seconds, bound to $3
     count |-> None, exceeded |-> None,
     stored |-> None,         \* the row as the statement left it
     overlap |-> FALSE]       \* another call on the key was in flight at start

RateReady(p) ==
    /\ rl_calls[p].pc = "idle"
    /\ \A q \in RateProcs : q < p => rl_calls[q].pc # "idle"

\* check_and_increment starts: window_start = Utc::now() - window_seconds.
StartCheckAndIncrement(p, key) ==
    /\ RateReady(p)
    /\ rl_calls' = [rl_calls EXCEPT ![p] =
                       [IdleRateCall EXCEPT
                           !.pc = "upsert", !.result = "pending",
                           !.key = Some(key),
                           !.window_start = Some(now - RATE_WINDOW_SECONDS),
                           !.overlap =
                              \E q \in RateProcs :
                                 /\ rl_calls[q].pc = "upsert"
                                 /\ rl_calls[q].key = Some(key)]]
    /\ UNCHANGED <<now, users, refresh_tokens, audit_logs, next_id, calls,
                   issued, Ghosts, Ephemeral, rate_limits, rl_log, rl_checks,
                   Authn, Ban>>

\* The upsert runs and RETURNING count comes back; exceeded is
\* count > config.max_requests.
CheckAndIncrementUpsert(p) ==
    LET c == rl_calls[p]
        key == Unwrap(c.key)
        after == rate_limits_upsert(key, Unwrap(c.window_start))
        row == Unwrap(after[key])
    IN  /\ c.pc = "upsert"
        /\ \E ok \in BOOLEAN :
              IF ok
              THEN /\ rate_limits' = after
                   /\ rl_log' = [rl_log EXCEPT ![key] =
                                    IF row.count = 1 THEN <<1>>
                                    ELSE Append(rl_log[key], row.count)]
                   /\ rl_calls' = [rl_calls EXCEPT ![p] =
                         [c EXCEPT !.pc = "done", !.result = "Ok",
                                   !.count = Some(row.count),
                                   !.exceeded =
                                      Some(row.count > RATE_MAX_REQUESTS),
                                   !.stored = Some(row)]]
              ELSE /\ rl_calls' = [rl_calls EXCEPT ![p] =
                         [c EXCEPT !.pc = "done", !.result = "DatabaseError"]]
                   /\ UNCHANGED <<rate_limits, rl_log>>
        /\ UNCHANGED <<now, users, refresh_tokens, audit_logs, next_id, calls,
                       issued, Ghosts, Ephemeral, rl_checks, Authn, Ban>>

\* -------------------------------------------------- RateLimitRepository::check

\* Mutant: exceeded is tested as in check_and_increment, count > max.
check_exceeded_above_max(key, window_start) ==
    LET row == rate_limits[key]
        count == IF IsSome(row) /\ Unwrap(row).window_start >= window_start
                 THEN Unwrap(row).count ELSE 0
    IN  [count |-> count, exceeded |-> count > RATE_MAX_REQUESTS]

\* The statement of check and what check makes of it:
\*   SELECT COALESCE((SELECT count FROM rate_limits WHERE key = $1
\*                    AND action = $2 AND window_start >= $3), 0);
\*   exceeded = count >= config.max_requests.
check(key, window_start) ==
    LET row == rate_limits[key]
        count == IF IsSome(row) /\ Unwrap(row).window_start >= window_start
                 THEN Unwrap(row).count ELSE 0
    IN  [count |-> count, exceeded |-> count >= RATE_MAX_REQUESTS]

IdleCheck ==
    [pc |-> "idle", key |-> None,
     window_start |-> None,   \* Utc::now() - window_seconds, bound to $3
     count |-> None, exceeded |-> None]

CheckReady(p) ==
    /\ rl_checks[p].pc = "idle"
    /\ \A q \in CheckProcs : q < p => rl_checks[q].pc # "idle"

\* check starts: window_start = Utc::now() - window_seconds.
StartCheck(p, key) ==
    /\ CheckReady(p)
    /\ rl_checks' = [rl_checks EXCEPT ![p] =
                        [IdleCheck EXCEPT
                            !.pc = "select", !.key = Some(key),
                            !.window_start = Some(now - RATE_WINDOW_SECONDS)]]
    /\ UNCHANGED <<now, users, refresh_tokens, audit_logs, next_id, calls,
                   issued, Ghosts, Ephemeral, rate_limits, rl_calls, rl_log,
                   Authn, Ban>>

\* The SELECT runs; Ok((count, exceeded)).
CheckSelect(p) ==
    LET c == rl_checks[p]
        key == Unwrap(c.key)
        answer == check(key, Unwrap(c.window_start))
    IN  /\ c.pc = "select"
        /\ rl_checks' = [rl_checks EXCEPT ![p] =
                            [c EXCEPT !.pc = "done",
                                      !.count = Some(answer.count),
                                      !.exceeded = Some(answer.exceeded)]]
        /\ UNCHANGED <<now, users, refresh_tokens, audit_logs, next_id, calls,
                       issued, Ghosts, Ephemeral, rate_limits, rl_calls, rl_log,
                       Authn, Ban>>

\* ------------------------------------------------------------ AutoBanService

\* SuspiciousPatterns.suffixes of default_patterns.
suffixes ==
    {<<".", "p", "h", "p">>,
     <<".", "p", "h", "t", "m", "l">>,
     <<".", "p", "h", "a", "r">>,
     <<".", "a", "s", "p">>,
     <<".", "a", "s", "p", "x">>,
     <<".", "a", "s", "h", "x">>,
     <<".", "a", "s", "m", "x">>,
     <<".", "j", "s", "p">>,
     <<".", "j", "s", "p", "x">>,
     <<".", "d", "o">>,
     <<".", "a", "c", "t", "i", "o", "n">>,
     <<".", "c", "g", "i">>,
     <<".", "p", "l">>,
     <<".", "c", "f", "m">>,
     <<".", "c", "f", "c">>,
     <<".", "b", "a", "k">>,
     <<".", "b", "a", "c", "k", "u", "p">>,
     <<".", "s", "a", "v", "e">>,
     <<".", "o", "l", "d">>,
     <<".", "o", "r", "i", "g">>,
     <<".", "s", "w", "p">>,
     <<".", "t", "m", "p">>,
     <<".", "s", "q", "l">>,
     <<".", "s", "q", "l", ".", "g", "z">>,
     <<".", "l", "o", "g">>,
     <<".", "c", "o", "n", "f">>,
     <<".", "i", "n", "i">>,
     <<".", "y", "m", "l">>,
     <<".", "y", "a", "m", "l">>,
     <<".", "t", "o", "m", "l">>,
     <<".", "x", "m", "l">>,
     <<".", "s", "h">>,
     <<".", "b", "a", "s", "h">>,
     <<".", "b", "a", "t">>,
     <<".", "c", "m", "d">>,
     <<".", "t", "a", "r">>,
     <<".", "t", "a", "r", ".", "g", "z">>,
     <<".", "t", "g", "z">>,
     <<".", "z", "i", "p">>,
     <<".", "r", "a", "r">>,
     <<".", "7", "z">>,
     <<".", "g", "z">>,
     <<".", "b", "z", "2">>}

\* SuspiciousPatterns.prefixes of default_patterns.
prefixes ==
    {<<"/", "w", "p", "-">>,
     <<"/", "w", "o", "r", "d", "p", "r", "e", "s", "s", "/">>,
     <<"/", "b", "l", "o", "g", "/", "w", "p", "-">>,
     <<"/", "j", "o", "o", "m", "l", "a", "/">>,
     <<"/", "a", "d", "m", "i", "n", "i", "s", "t", "r", "a", "t", "o", "r", "/">>,
     <<"/", "d", "r", "u", "p", "a", "l", "/">>,
     <<"/", "m", "a", "g", "e", "n", "t", "o", "/">>,
     <<"/", "d", "o", "w", "n", "l", "o", "a", "d", "e", "r", "/">>,
     <<"/", "c", "m", "s", "/">>,
     <<"/", "p", "h", "p", "m", "y", "a", "d", "m", "i", "n", "/">>,
     <<"/", "p", "m", "a", "/">>,
     <<"/", "m", "y", "a", "d", "m", "i", "n", "/">>,
     <<"/", "m", "y", "s", "q", "l", "/">>,
     <<"/", "d", "b", "a", "d", "m", "i", "n", "/">>,
     <<"/", "p", "h", "p", "M", "y", "A", "d", "m", "i", "n", "/">>,
     <<"/", "a", "w", "s", "-", "c", "r", "e", "d", "e", "n", "t", "i", "a", "l", "s">>,
     <<"/", "c", "r", "e", "d", "e", "n", "t", "i", "a", "l", "s">>,
     <<"/", "c", "o", "n", "f", "i", "g", ".", "p", "h", "p">>,
     <<"/", "a", "p", "i", "/", "s", "w", "a", "g", "g", "e", "r">>,
     <<"/", "s", "w", "a", "g", "g", "e", "r">>,
     <<"/", "a", "p", "i", "-", "d", "o", "c", "s">>,
     <<"/", "a", "c", "t", "u", "a", "t", "o", "r">>,
     <<"/", "j", "o", "l", "o", "k", "i", "a", "/">>,
     <<"/", "c", "o", "n", "s", "o", "l", "e", "/">>,
     <<"/", "m", "a", "n", "a", "g", "e", "r", "/">>,
     <<"/", "h", "o", "s", "t", "-", "m", "a", "n", "a", "g", "e", "r", "/">>,
     <<"/", "d", "e", "b", "u", "g">>,
     <<"/", "d", "u", "m", "p">>,
     <<"/", "n", "o", "d", "e", "_", "m", "o", "d", "u", "l", "e", "s", "/">>,
     <<"/", "t", "e", "s", "t", "/">>,
     <<"/", "t", "m", "p", "/">>,
     <<"/", "b", "a", "c", "k", "u", "p", "/">>,
     <<"/", "b", "a", "c", "k", "u", "p", "s", "/">>,
     <<"/", "s", "r", "c", "/">>}

\* SuspiciousPatterns.exact of default_patterns.
exact ==
    {<<"/", "s", "e", "r", "v", "e", "r", "-", "i", "n", "f", "o">>,
     <<"/", "s", "e", "r", "v", "e", "r", "-", "s", "t", "a", "t", "u", "s">>,
     <<"/", "x", "m", "l", "r", "p", "c", ".", "p", "h", "p">>,
     <<"/", "d", "a", "t", "a", "b", "a", "s", "e", ".", "y", "m", "l">>,
     <<"/", "s", "e", "c", "r", "e", "t", "s", ".", "j", "s", "o", "n">>,
     <<"/", "s", "e", "c", "r", "e", "t", "s", ".", "y", "m", "l">>,
     <<"/", "d", "o", "c", "k", "e", "r", ".", "s", "h">>,
     <<"/", "D", "o", "c", "k", "e", "r", "f", "i", "l", "e">>,
     <<"/", "p", "a", "c", "k", "a", "g", "e", ".", "j", "s", "o", "n">>,
     <<"/", "p", "a", "c", "k", "a", "g", "e", "-", "l", "o", "c", "k", ".", "j", "s", "o", "n">>,
     <<"/", "a", "p", "i", "/", "i", "n", "f", "o">>,
     <<"/", "a", "p", "i", "/", "c", "o", "n", "f", "i", "g">>,
     <<"/", "a", "p", "i", "/", "d", "e", "b", "u", "g">>,
     <<"/", "a", "p", "i", "/", "e", "n", "v">>,
     <<"/", "g", "r", "a", "p", "h", "q", "l">>,
     <<"/", "t", "r", "a", "c", "e">>,
     <<"/", "t", "e", "s", "t">>}

\* SuspiciousPatterns.contains of default_patterns.
contains ==
    {<<".", ".", "/">>}

\* str::starts_with, str::ends_with, str::contains on character sequences.
starts_with(s, p) ==
    Len(p) <= Len(s) /\ \A i \in 1..Len(p) : s[i] = p[i]
ends_with(s, p) ==
    Len(p) <= Len(s) /\ \A i \in 1..Len(p) : s[Len(s) - Len(p) + i] = p[i]
str_contains(s, n) ==
    \E k \in 0..(Len(s) - Len(n)) : \A i \in 1..Len(n) : s[k + i] = n[i]

\* The ASCII upper-case letters and their lower-case forms.
AsciiLower ==
    [c \in {"A", "B", "C", "D", "E", "F", "G", "H", "I", "J", "K", "L", "M",
            "N", "O", "P", "Q", "R", "S", "T", "U", "V", "W", "X", "Y", "Z"}
      |-> CASE c = "A" -> "a" [] c = "B" -> "b" [] c = "C" -> "c"
            [] c = "D" -> "d" [] c = "E" -> "e" [] c = "F" -> "f"
            [] c = "G" -> "g" [] c = "H" -> "h" [] c = "I" -> "i"
            [] c = "J" -> "j" [] c = "K" -> "k" [] c = "L" -> "l"
            [] c = "M" -> "m" [] c = "N" -> "n" [] c = "O" -> "o"
            [] c = "P" -> "p" [] c = "Q" -> "q" [] c = "R" -> "r"
            [] c = "S" -> "s" [] c = "T" -> "t" [] c = "U" -> "u"
            [] c = "V" -> "v" [] c = "W" -> "w" [] c = "X" -> "x"
            [] c = "Y" -> "y" [] c = "Z" -> "z"]

\* Mutant: the path is compared as it came.
to_ascii_lowercase_as_is(s) == s

\* str::to_ascii_lowercase.
to_ascii_lowercase(s) ==
    [i \in 1..Len(s) |->
        IF s[i] \in DOMAIN AsciiLower THEN AsciiLower[s[i]] ELSE s[i]]

\* SuspiciousPatterns::matches: the exact set, then the prefixes, then the
\* suffixes against the lower-cased path, then the needles.
SuspiciousPatterns_matches(path) ==
    LET lower == to_ascii_lowercase(path)
    IN  IF path \in exact THEN TRUE
        ELSE IF \E prefix \in prefixes : starts_with(path, prefix) THEN TRUE
        ELSE IF \E suffix \in suffixes : ends_with(lower, suffix) THEN TRUE
        ELSE IF \E needle \in contains : str_contains(path, needle) THEN TRUE
        ELSE FALSE

is_suspicious(path) == SuspiciousPatterns_matches(path)

\* Paths for the matcher on its own: a head, a stem and a tail each, and
\* the paths of the unit tests that the rules are stated with.
PatternHeads ==
    {<<"/">>, <<"/", "w", "p", "-">>, <<"/", "W", "P", "-">>,
     <<"/", "a", "p", "p", "/", ".", ".", "/">>,
     <<"/", "v", "1", "/">>, <<"/", "a", "p", "i", "/">>}
PatternStems ==
    {<<"x">>, <<"a", "d", "m", "i", "n">>, <<"t", "e", "s", "t">>, <<"T", "E", "S", "T">>,
     <<"i", "n", "f", "o">>, <<"g", "r", "a", "p", "h", "q", "l">>}
PatternTails ==
    {<<>>, <<".", "p", "h", "p">>, <<".", "P", "H", "P">>, <<".", "P", "h", "p">>,
     <<".", "j", "s">>, <<"/", "x">>, <<".", "s", "q", "l", ".", "g", "z">>}
PatternInputs ==
    {h \o m \o e : h \in PatternHeads, m \in PatternStems, e \in PatternTails}
      \cup {WpLoginPath, LoginPath,
            <<"/", "U", "P", "P", "E", "R", ".", "P", "H", "P">>,
            <<"/", ".", ".", "/", ".", ".", "/", "e", "t", "c", "/", "p", "a", "s", "s", "w", "d">>,
            <<"/", "a", "d", "m", "i", "n">>,
            <<"/", "a", "s", "s", "e", "t", "s", "/", "i", "n", "d", "e", "x", "-", "a", "b", "c", "1", "2", "3", ".", "j", "s">>}

\* Mutant: the expiry instant itself still counts as banned.
is_banned_inclusive(ip) ==
    /\ IsSome(banned[ip])
    /\ now <= Unwrap(banned[ip]).expires_at

\* AutoBanService::is_banned: the address has an entry that has not expired.
is_banned(ip) ==
    /\ IsSome(banned[ip])
    /\ now < Unwrap(banned[ip]).expires_at

is_enabled == enabled

StrikeEntry(count, first_seen, last_path) ==
    [count |-> count, first_seen |-> first_seen, last_path |-> last_path]

BanEntry(reason, expires_at) == [reason |-> reason, expires_at |-> expires_at]

\* The strikes critical section of record_strike, up to the threshold test:
\* the entry of the address after or_insert, window reset and increment.
\* Mutant first: one entry, whichever address it was made for, serves all.
record_strike_entry_shared(ip, at, path) ==
    LET held == {i \in Ips : IsSome(strikes[i])}
        entry == IF held # {} THEN Unwrap(strikes[CHOOSE i \in held : TRUE])
                 ELSE StrikeEntry(0, at, "")
        reset == IF at - entry.first_seen > AUTOBAN_WINDOW_SECS
                 THEN StrikeEntry(0, at, entry.last_path) ELSE entry
    IN  StrikeEntry(reset.count + 1, reset.first_seen, path)

\* Mutant: the window is never tested, every strike adds to the count.
record_strike_entry_unwindowed(ip, at, path) ==
    LET entry == IF IsSome(strikes[ip]) THEN Unwrap(strikes[ip])
                 ELSE StrikeEntry(0, at, "")
    IN  StrikeEntry(entry.count + 1, entry.first_seen, path)

record_strike_entry(ip, at, path) ==
    LET entry == IF IsSome(strikes[ip]) THEN Unwrap(strikes[ip])
                 ELSE StrikeEntry(0, at, "")
        reset == IF at - entry.first_seen > AUTOBAN_WINDOW_SECS
                 THEN StrikeEntry(0, at, entry.last_path) ELSE entry
    IN  StrikeEntry(reset.count + 1, reset.first_seen, path)

IdleRequest ==
    [pc |-> "idle", outcome |-> "none",
     ip |-> None,             \* extract_client_ip(req)
     path |-> None,           \* req.path()
     at |-> None,             \* record_strike: let now = Utc::now()
     expires_at |-> None,     \* record_strike: expiry of the ban it decided
     saw_banned |-> None,     \* what is_banned answered for this request
     nth |-> None,            \* entry.count after this request's increment
     newly_banned |-> None,   \* what record_strike returned
     handled |-> FALSE]       \* the inner service's handler has started

\* Requests reach the middleware in the order of their numbers, once the
\* server is up.
BanReady(m) ==
    /\ boot.pc = "serving"
    /\ reqs[m].pc = "idle"
    /\ \A q \in BanProcs : q < m => reqs[q].pc # "idle"

Respond(c, outcome) == [c EXCEPT !.pc = "done", !.outcome = outcome]

AuthState_store == <<users, refresh_tokens, audit_logs, next_id, calls,
                     issued, Ghosts, Ephemeral, Rate>>
AuthState == <<users, refresh_tokens, audit_logs, next_id, calls, issued,
               Ghosts, Ephemeral, Rate, Authn>>

\* AutoBanMiddlewareService::call, up to the first await: a disabled
\* service and a request without a parseable client address go straight to
\* the inner service.
MiddlewareCall(m, ip, path) ==
    /\ BanReady(m)
    /\ LET c == [IdleRequest EXCEPT !.ip = ip, !.path = Some(path)]
       IN  reqs' = [reqs EXCEPT ![m] =
                       IF ~is_enabled THEN Respond(c, "forwarded")
                       ELSE IF ~IsSome(ip) THEN Respond(c, "forwarded")
                       ELSE [c EXCEPT !.pc = "is_banned"]]
    /\ UNCHANGED <<now, AuthState, locks, enabled, banned, strikes, ip_bans, boot,
                   sweeper, persist, strike_hist>>

\* Mutant: the pattern matcher is asked before the banned map.
MiddlewareIsBanned_strike_first(m) ==
    /\ reqs[m].pc = "is_banned"
    /\ locks.banned = None
    /\ LET c == reqs[m]
           ip == Unwrap(c.ip)
       IN  reqs' = [reqs EXCEPT ![m] =
                       IF is_suspicious(Unwrap(c.path))
                       THEN [c EXCEPT !.saw_banned = Some(is_banned(ip)),
                                      !.pc = "record_strike",
                                      !.at = Some(now)]
                       ELSE IF is_banned(ip)
                       THEN Respond([c EXCEPT !.saw_banned = Some(TRUE)],
                                    "Forbidden")
                       ELSE Respond([c EXCEPT !.saw_banned = Some(FALSE)],
                                    "forwarded")]
    /\ UNCHANGED <<now, AuthState, locks, enabled, banned, strikes, ip_bans, boot,
                   sweeper, persist, strike_hist>>

\* is_banned under the read lock, then is_suspicious; record_strike takes
\* its time stamp before it waits for the strikes lock.
MiddlewareIsBanned(m) ==
    /\ reqs[m].pc = "is_banned"
    /\ locks.banned = None
    /\ LET c == reqs[m]
           ip == Unwrap(c.ip)
       IN  reqs' = [reqs EXCEPT ![m] =
                       IF is_banned(ip)
                       THEN Respond([c EXCEPT !.saw_banned = Some(TRUE)],
                                    "Forbidden")
                       ELSE IF is_suspicious(Unwrap(c.path))
                       THEN [c EXCEPT !.saw_banned = Some(FALSE),
                                      !.pc = "record_strike",
                                      !.at = Some(now)]
                       ELSE Respond([c EXCEPT !.saw_banned = Some(FALSE)],
                                    "forwarded")]
    /\ UNCHANGED <<now, AuthState, locks, enabled, banned, strikes, ip_bans, boot,
                   sweeper, persist, strike_hist>>

\* record_strike under the strikes write lock: count the strike; below
\* the threshold return false (the guard goes with the return), after
\* which the middleware answers Forbidden; at the threshold remove the
\* entry, still holding the guard.
RecordStrikeCount(m) ==
    /\ reqs[m].pc = "record_strike"
    /\ locks.strikes = None
    /\ LET c == reqs[m]
           ip == Unwrap(c.ip)
           at == Unwrap(c.at)
           entry == record_strike_entry(ip, at, Unwrap(c.path))
       IN  /\ strike_hist' = [strike_hist EXCEPT ![ip] =
                                 Append(@, [at |-> at, nth |-> entry.count,
                                            req |-> m])]
           /\ IF entry.count >= AUTOBAN_THRESHOLD
              THEN /\ strikes' = [strikes EXCEPT ![ip] = None]
                   /\ locks' = [locks EXCEPT !.strikes = Some(m)]
                   /\ reqs' = [reqs EXCEPT ![m] =
                         [c EXCEPT !.pc = "drop_strikes",
                                   !.nth = Some(entry.count),
                                   !.expires_at =
                                       Some(at + AUTOBAN_BAN_DURATION_SECS)]]
              ELSE /\ strikes' = [strikes EXCEPT ![ip] = Some(entry)]
                   /\ locks' = locks
                   /\ reqs' = [reqs EXCEPT ![m] =
                         Respond([c EXCEPT !.nth = Some(entry.count),
                                           !.newly_banned = Some(FALSE)],
                                 "Forbidden")]
    /\ UNCHANGED <<now, AuthState, enabled, banned, ip_bans, boot, sweeper,
                   persist>>

\* record_strike: drop(strikes), then wait for the banned write lock.
RecordStrikeDrop(m) ==
    /\ reqs[m].pc = "drop_strikes"
    /\ locks' = [locks EXCEPT !.strikes = None]
    /\ reqs' = [reqs EXCEPT ![m].pc = "ban_insert"]
    /\ UNCHANGED <<now, AuthState, enabled, banned, strikes, ip_bans, boot,
                   sweeper, persist, strike_hist>>

BanReason(c) == <<"Auto-banned", Unwrap(c.nth), Unwrap(c.path)>>

\* Mutant: the task is spawned inside the block that holds the banned guard.
RecordStrikeBan_spawns_under_lock(m) ==
    /\ reqs[m].pc = "ban_insert"
    /\ locks.banned = None
    /\ LET c == reqs[m]
           ip == Unwrap(c.ip)
           entry == BanEntry(BanReason(c), Unwrap(c.expires_at))
       IN  /\ banned' = [banned EXCEPT ![ip] = Some(entry)]
           /\ persist' = persist \cup {[ip |-> ip, reason |-> BanReason(c),
                                        expires_at |-> entry.expires_at,
                                        req |-> m]}
    /\ locks' = [locks EXCEPT !.banned = Some(m)]
    /\ reqs' = [reqs EXCEPT ![m].pc = "ban_unlock"]
    /\ UNCHANGED <<now, AuthState, enabled, strikes, ip_bans, boot, sweeper,
                   strike_hist>>

\* record_strike under the banned write lock: insert the ban.
RecordStrikeBan(m) ==
    /\ reqs[m].pc = "ban_insert"
    /\ locks.banned = None
    /\ LET c == reqs[m]
           ip == Unwrap(c.ip)
           entry == BanEntry(BanReason(c), Unwrap(c.expires_at))
       IN  banned' = [banned EXCEPT ![ip] = Some(entry)]
    /\ locks' = [locks EXCEPT !.banned = Some(m)]
    /\ reqs' = [reqs EXCEPT ![m].pc = "ban_unlock"]
    /\ UNCHANGED <<now, AuthState, enabled, strikes, ip_bans, boot, sweeper,
                   persist, strike_hist>>

\* record_strike: the block that holds the banned guard ends.
RecordStrikeUnlock(m) ==
    /\ reqs[m].pc = "ban_unlock"
    /\ locks' = [locks EXCEPT !.banned = None]
    /\ reqs' = [reqs EXCEPT ![m].pc = "spawn_persist"]
    /\ UNCHANGED <<now, AuthState, enabled, banned, strikes, ip_bans, boot,
                   sweeper, persist, strike_hist>>

\* record_strike: tokio::spawn of the persist_ban task, then return true;
\* the middleware answers Forbidden.
RecordStrikeSpawn(m) ==
    /\ reqs[m].pc = "spawn_persist"
    /\ LET c == reqs[m]
       IN  /\ persist' = persist \cup {[ip |-> Unwrap(c.ip),
                                        reason |-> BanReason(c),
                                        expires_at |-> Unwrap(c.expires_at),
                                        req |-> m]}
           /\ reqs' = [reqs EXCEPT ![m] =
                          Respond([c EXCEPT !.newly_banned = Some(TRUE)],
                                  "Forbidden")]
    /\ UNCHANGED <<now, AuthState, locks, enabled, banned, strikes, ip_bans,
                   boot, sweeper, strike_hist>>

\* Mutant: a failed write takes the in-memory ban back.
PersistBan_failure_lifts_ban(t) ==
    /\ t \in persist
    /\ persist' = persist \ {t}
    /\ \E ok \in BOOLEAN :
          /\ ip_bans' = IF ok
                        THEN [ip_bans EXCEPT ![t.ip] =
                                 Some(BanEntry(t.reason, t.expires_at))]
                        ELSE ip_bans
          /\ banned' = IF ok THEN banned ELSE [banned EXCEPT ![t.ip] = None]
    /\ UNCHANGED <<now, AuthState, locks, enabled, strikes, boot, sweeper,
                   reqs, strike_hist>>

\* The spawned persist_ban task: upsert into ip_bans; an error is logged.
PersistBan(t) ==
    /\ t \in persist
    /\ persist' = persist \ {t}
    /\ \E ok \in BOOLEAN :
          ip_bans' = IF ok
                     THEN [ip_bans EXCEPT ![t.ip] =
                              Some(BanEntry(t.reason, t.expires_at))]
                     ELSE ip_bans
    /\ UNCHANGED <<now, AuthState, locks, enabled, banned, strikes, boot, sweeper,
                   reqs, strike_hist>>

\* AutoBanService::cleanup_expired, run by the background task: the banned
\* map, then the strikes map, both against the time stamp taken first.
CleanupExpiredStart ==
    /\ boot.pc = "serving"
    /\ sweeper.pc = "idle"
    /\ sweeper' = [pc |-> "banned", at |-> Some(now)]
    /\ UNCHANGED <<now, AuthState, locks, enabled, banned, strikes, ip_bans, boot,
                   reqs, persist, strike_hist>>

CleanupExpiredBanned ==
    /\ sweeper.pc = "banned"
    /\ locks.banned = None
    /\ banned' = [i \in Ips |->
                    IF /\ IsSome(banned[i])
                       /\ Unwrap(banned[i]).expires_at > Unwrap(sweeper.at)
                    THEN banned[i] ELSE None]
    /\ sweeper' = [sweeper EXCEPT !.pc = "strikes"]
    /\ UNCHANGED <<now, AuthState, locks, enabled, strikes, ip_bans, boot, reqs,
                   persist, strike_hist>>

\* Mutant: an entry whose window ends at the sweep's time stamp goes too.
CleanupExpiredStrikes_at_window_end ==
    /\ sweeper.pc = "strikes"
    /\ locks.strikes = None
    /\ strikes' = [i \in Ips |->
                     IF /\ IsSome(strikes[i])
                        /\ Unwrap(sweeper.at) - Unwrap(strikes[i]).first_seen
                              < AUTOBAN_WINDOW_SECS
                     THEN strikes[i] ELSE None]
    /\ strike_hist' =
          [i \in Ips |->
             IF IsSome(strikes[i]) /\ ~IsSome(strikes'[i])
             THEN Append(strike_hist[i],
                         [at |-> Unwrap(sweeper.at), nth |-> 0, req |-> 0])
             ELSE strike_hist[i]]
    /\ sweeper' = [pc |-> "idle", at |-> None]
    /\ UNCHANGED <<now, AuthState, locks, enabled, banned, ip_bans, boot, reqs,
                   persist>>

CleanupExpiredStrikes ==
    /\ sweeper.pc = "strikes"
    /\ locks.strikes = None
    /\ strikes' = [i \in Ips |->
                     IF /\ IsSome(strikes[i])
                        /\ Unwrap(sweeper.at) - Unwrap(strikes[i]).first_seen
                              <= AUTOBAN_WINDOW_SECS
                     THEN strikes[i] ELSE None]
    /\ strike_hist' =
          [i \in Ips |->
             IF IsSome(strikes[i]) /\ ~IsSome(strikes'[i])
             THEN Append(strike_hist[i],
                         [at |-> Unwrap(sweeper.at), nth |-> 0, req |-> 0])
             ELSE strike_hist[i]]
    /\ sweeper' = [pc |-> "idle", at |-> None]
    /\ UNCHANGED <<now, AuthState, locks, enabled, banned, ip_bans, boot, reqs,
                   persist>>

\* main: load_active_bans (SELECT ... WHERE expires_at > NOW()); when the
\* query fails the server starts with an empty banned map.
LoadActiveBans ==
    /\ boot.pc = "select"
    /\ \E ok \in BOOLEAN :
          boot' = IF ok
                  THEN [pc |-> "load_bans",
                        rows |-> [i \in Ips |->
                                    IF /\ IsSome(ip_bans[i])
                                       /\ Unwrap(ip_bans[i]).expires_at > now
                                    THEN ip_bans[i] ELSE None]]
                  ELSE [pc |-> "serving", rows |-> [i \in Ips |-> None]]
    /\ UNCHANGED <<now, AuthState, locks, enabled, banned, strikes, ip_bans, reqs,
                   sweeper, persist, strike_hist>>

\* Mutant: the rows are read and counted but not inserted.
LoadBans_drops_rows ==
    /\ boot.pc = "load_bans"
    /\ boot' = [boot EXCEPT !.pc = "serving"]
    /\ UNCHANGED <<now, AuthState, locks, enabled, banned, strikes, ip_bans, reqs,
                   sweeper, persist, strike_hist>>

\* AutoBanService::load_bans: every row goes into the banned map.
LoadBans ==
    /\ boot.pc = "load_bans"
    /\ banned' = [i \in Ips |->
                    IF IsSome(boot.rows[i]) THEN boot.rows[i] ELSE banned[i]]
    /\ boot' = [boot EXCEPT !.pc = "serving"]
    /\ UNCHANGED <<now, AuthState, locks, enabled, strikes, ip_bans, reqs, sweeper,
                   persist, strike_hist>>

\* One call of SuspiciousPatterns::matches.
Matches(path) ==
    /\ probe' = Some([path |-> path,
                      matched |-> SuspiciousPatterns_matches(path)])
    /\ UNCHANGED <<now, AuthState_store, authn, Ban>>

\* ------------------------------------------------------- middleware::auth

\* A request that presents a token, or a round trip through JwtService.
IdleAuthn ==
    [pc |-> "idle", op |-> "none", token |-> None, user |-> None,
     at |-> None, outcome |-> "none", claims |-> None,
     live |-> None]     \* was a rotation record of the subject usable?

AuthnReady(a) ==
    /\ authn[a].pc = "idle"
    /\ \A b \in AuthnProcs : b < a => authn[b].pc # "idle"

\* Rotation records of the token's subject that refresh_tokens would accept.
LiveSessions(token) ==
    {x \in refresh_tokens : /\ x.user_id = token.sub
                            /\ ~IsSome(x.revoked_at) /\ x.expires_at > now}

\* Mutant: a session token is honoured only while its user has a live
\* rotation record.
from_request_needs_session(a, token) ==
    /\ AuthnReady(a)
    /\ authn' = [authn EXCEPT ![a] =
          IF ~IsSome(token)
          THEN [IdleAuthn EXCEPT !.pc = "done", !.op = "from_request",
                                 !.at = Some(now), !.outcome = "Unauthorized"]
          ELSE LET r == verify_access_token(Unwrap(token), now)
                   live == LiveSessions(Unwrap(token)) # {}
               IN  [IdleAuthn EXCEPT
                      !.pc = "done", !.op = "from_request", !.token = token,
                      !.at = Some(now), !.live = Some(live),
                      !.outcome = IF r = "Ok" /\ ~live
                                  THEN "Unauthorized" ELSE r,
                      !.claims = IF r = "Ok" /\ live
                                 THEN Some(AccessClaimsOf(Unwrap(token)))
                                 ELSE None]]
    /\ UNCHANGED <<now, AuthState_store, probe, Ban>>

\* AuthenticatedUser::from_request: extract_token, then verify_access_token;
\* the claims on success, the typed failure otherwise, Unauthorized when
\* the request carries no token.
from_request(a, token) ==
    /\ AuthnReady(a)
    /\ authn' = [authn EXCEPT ![a] =
          IF ~IsSome(token)
          THEN [IdleAuthn EXCEPT !.pc = "done", !.op = "from_request",
                                 !.at = Some(now), !.outcome = "Unauthorized"]
          ELSE LET r == verify_access_token(Unwrap(token), now)
               IN  [IdleAuthn EXCEPT
                      !.pc = "done", !.op = "from_request", !.token = token,
                      !.at = Some(now), !.outcome = r,
                      !.live = Some(LiveSessions(Unwrap(token)) # {}),
                      !.claims = IF r = "Ok"
                                 THEN Some(AccessClaimsOf(Unwrap(token)))
                                 ELSE None]]
    /\ UNCHANGED <<now, AuthState_store, probe, Ban>>

\* ------------------------------------------------- JwtService, token by token

\* create_access_token(user) at the current time.
JwtCreateAccess(a, u) ==
    /\ AuthnReady(a)
    /\ authn' = [authn EXCEPT ![a] =
          [IdleAuthn EXCEPT !.pc = "held", !.op = "access",
                            !.token = Some(create_access_token(u, a, now)),
                            !.user = Some(u), !.at = Some(now)]]
    /\ UNCHANGED <<now, AuthState_store, probe, Ban>>

\* create_refresh_token(user_id) at the current time.
JwtCreateRefresh(a, u) ==
    /\ AuthnReady(a)
    /\ authn' = [authn EXCEPT ![a] =
          [IdleAuthn EXCEPT !.pc = "held", !.op = "refresh",
                            !.token = Some(create_refresh_token(u, a, now)[1]),
                            !.user = Some(u), !.at = Some(now)]]
    /\ UNCHANGED <<now, AuthState_store, probe, Ban>>

\* Tokens of either kind as other parties can make them: signed with this
\* service's key or another, for this issuer or another, of any age.
JwtInputs ==
    {[AccessTokenClaims(u, 0, iat) EXCEPT !.iss = i, !.sig = s] :
        u \in {"u1"}, iat \in 0..MaxTime, i \in Issuers, s \in BOOLEAN}
    \cup {[RefreshTokenClaims(u, 0, iat) EXCEPT !.sig = s] :
             u \in {"u1"}, iat \in 0..MaxTime, s \in BOOLEAN}

\* A caller holds a token that this run of the service did not make.
JwtPresent(a, op, token) ==
    /\ AuthnReady(a)
    /\ authn' = [authn EXCEPT ![a] =
          [IdleAuthn EXCEPT !.pc = "held", !.op = op, !.token = Some(token),
                            !.at = Some(now)]]
    /\ UNCHANGED <<now, AuthState_store, probe, Ban>>

\* verify_access_token / verify_refresh_token of the held token.
JwtVerify(a) ==
    LET c == authn[a]
        token == Unwrap(c.token)
        r == IF c.op = "access" THEN verify_access_token(token, now)
             ELSE verify_refresh_token(token, now)
    IN  /\ c.pc = "held"
        /\ authn' = [authn EXCEPT ![a] =
              [c EXCEPT !.pc = "done", !.at = Some(now), !.outcome = r,
                        !.claims = IF r # "Ok" THEN None
                                   ELSE IF c.op = "access"
                                        THEN Some(AccessClaimsOf(token))
                                   ELSE Some(RefreshClaimsOf(token))]]
        /\ UNCHANGED <<now, AuthState_store, probe, Ban>>

\* --------------------------------------------------------- handlers::auth

\* Mutant: the body tells whether a mail is on its way.
IssuanceResponse_tells(c) ==
    IF c.result = "Ok"
    THEN [status |-> "Accepted", success |-> TRUE,
          data |-> Some(IsSome(c.token))]
    ELSE [status |-> c.result, success |-> FALSE, data |-> None]

\* handlers::auth::request_magic_link and request_password_reset: what the
\* caller gets once the AuthService call has returned.  The token goes to
\* the mail task and never into the response.
IssuanceResponse(c) ==
    IF c.result = "Ok"
    THEN [status |-> "Accepted", success |-> TRUE, data |-> None]
    ELSE [status |-> c.result, success |-> FALSE, data |-> None]

\* handlers::auth::login behind the middleware: the inner service runs the
\* handler for a forwarded request, and the handler's first await is
\* AuthService::login with the body's email and password.
login_handler(m, p, email, password) ==
    /\ reqs[m].pc = "done" /\ reqs[m].outcome = "forwarded"
    /\ reqs[m].path = Some(LoginPath)
    /\ ~reqs[m].handled
    /\ Ready(p)
    /\ reqs' = [reqs EXCEPT ![m].handled = TRUE]
    /\ calls' = [calls EXCEPT ![p] =
                    [IdleCall EXCEPT !.op = "login", !.pc = "login_find_user",
                                     !.result = "pending",
                                     !.email = Some(email),
                                     !.password = Some(password)]]
    /\ UNCHANGED <<now, users, refresh_tokens, audit_logs, next_id, issued,
                   Ghosts, Ephemeral, Rate, Authn, enabled, banned, strikes, ip_bans,
                   boot, sweeper, persist, strike_hist, locks>>

\* ------------------------------------- TokenRepository::cleanup_expired_tokens

\* The three DELETE statements of cleanup_expired_tokens.  They touch
\* different tables and are separated by awaits; each is its own step.

\* DELETE FROM refresh_tokens WHERE expires_at < NOW().
SweepRefreshTokens ==
    /\ refresh_tokens' = {r \in refresh_tokens : ~(r.expires_at < now)}
    /\ UNCHANGED <<now, users, audit_logs, next_id, calls, issued,
                   Ghosts, Ephemeral, Rate, Authn, Ban>>

\* DELETE FROM magic_link_tokens WHERE expires_at < NOW().
SweepMagicLinkTokens ==
    /\ magic_link_tokens' = {r \in magic_link_tokens : ~(r.expires_at < now)}
    /\ UNCHANGED <<now, users, refresh_tokens, password_reset_tokens,
                   audit_logs, next_id, calls, issued, mailed, Ghosts,
                   pw_updates, Rate, Authn, Ban>>

\* Mutant: the DELETE also takes records that expire within one lifetime.
SweepPasswordResetTokens_before_expiry ==
    /\ password_reset_tokens' =
          {r \in password_reset_tokens :
              ~(r.expires_at < now + PASSWORD_RESET_TTL + 1)}
    /\ UNCHANGED <<now, users, refresh_tokens, magic_link_tokens,
                   audit_logs, next_id, calls, issued, mailed, Ghosts,
                   pw_updates, Rate, Authn, Ban>>

\* DELETE FROM password_reset_tokens WHERE expires_at < NOW().
SweepPasswordResetTokens ==
    /\ password_reset_tokens' =
          {r \in password_reset_tokens : ~(r.expires_at < now)}
    /\ UNCHANGED <<now, users, refresh_tokens, magic_link_tokens,
                   audit_logs, next_id, calls, issued, mailed, Ghosts,
                   pw_updates, Rate, Authn, Ban>>

\* ------------------------------------------------------------------- clock

Tick ==
    /\ now < MaxTime
    /\ now' = now + 1
    /\ UNCHANGED <<users, refresh_tokens, audit_logs, next_id, calls, issued,
                   Ghosts, Ephemeral, Rate, Authn, Ban>>

\* ---------------------------------------------------------- specifications

\* Rotation records written before the first modelled request, all at
\* time 0: u1 logged in (id 1) and rotated that token into the token of
\* id 2; u2 logged in (id 3).
InitSessions ==
    {[id |-> 1, user_id |-> "u1", revoked_at |-> Some(0)],
     [id |-> 2, user_id |-> "u1", revoked_at |-> None],
     [id |-> 3, user_id |-> "u2", revoked_at |-> None]}

InitToken(s) == create_refresh_token(s.user_id, s.id, 0)

\* The store as two registered users and their earlier requests left it:
\* the rotation records of InitSessions plus the given ephemeral records.
InitCore(magic, reset, raw, nid) ==
    /\ now = 0
    /\ users = [u \in UserIds |->
                   IF u = "u1"
                   THEN [UserRow("u1@x", Some(PasswordHash("pwA")), Some(0))
                            EXCEPT !.role = "admin"]
                   ELSE UserRow("u2@x", Some(PasswordHash("pwB")), Some(0))]
    /\ refresh_tokens =
          {[id |-> s.id, user_id |-> s.user_id, token_hash |-> InitToken(s)[2],
            expires_at |-> 0 + REFRESH_RECORD_TTL,
            revoked_at |-> s.revoked_at] : s \in InitSessions}
    /\ magic_link_tokens = magic
    /\ password_reset_tokens = reset
    /\ audit_logs = {<<"UserLogin", u>> : u \in UserIds}
    /\ next_id = nid
    /\ calls = [p \in Procs |-> IdleCall]
    /\ issued = {InitToken(s)[1] : s \in InitSessions}
    /\ mailed = raw
    /\ rotated = {InitToken(s)[1] : s \in {x \in InitSessions : x.id = 1}}
    /\ revoked_all = {}
    /\ logged_out = {}
    /\ pw_updates = {}
    /\ rate_limits = [k \in RateKeys |-> None]
    /\ rl_calls = [p \in RateProcs |-> IdleRateCall]
    /\ rl_log = [k \in RateKeys |-> <<>>]
    /\ rl_checks = [p \in CheckProcs |-> IdleCheck]
    /\ authn = [a \in AuthnProcs |-> IdleAuthn]
    /\ probe = None

\* AutoBanService::new with the given configuration, before main loads the
\* rows that earlier runs left in ip_bans.
InitAutoBan(rows, en) ==
    /\ enabled = en
    /\ banned = [i \in Ips |-> None]
    /\ strikes = [i \in Ips |-> None]
    /\ ip_bans = rows
    /\ boot = [pc |-> "select", rows |-> [i \in Ips |-> None]]
    /\ reqs = [m \in BanProcs |-> IdleRequest]
    /\ sweeper = [pc |-> "idle", at |-> None]
    /\ persist = {}
    /\ strike_hist = [i \in Ips |-> <<>>]
    /\ locks = [strikes |-> None, banned |-> None]

InitStore(magic, reset, raw, nid) ==
    /\ InitCore(magic, reset, raw, nid)
    /\ InitAutoBan([i \in Ips |-> None], TRUE)

Init == InitStore({}, {}, {}, 4)

\* Session flows: login, refresh, logout, logout_all, the sweep, the clock.
Next ==
    \/ \E p \in Procs, e \in {"u1@x", "u2@x"}, pw \in Passwords :
          StartLogin(p, e, pw)
    \/ \E p \in Procs : LoginFindUser(p)
    \/ \E p \in Procs : LoginCreateTokens(p)
    \/ \E p \in Procs : LoginUpdateLastLogin(p)
    \/ \E p \in Procs : LoginAudit(p)
    \/ \E p \in Procs, t \in issued \cup {ForgedToken} : StartRefresh(p, t)
    \/ \E p \in Procs : RefreshFind(p)
    \/ \E p \in Procs : RefreshRevoke(p)
    \/ \E p \in Procs : RefreshCreateTokens(p)
    \/ \E p \in Procs, t \in issued, u \in UserIds : StartLogout(p, t, u)
    \/ \E p \in Procs : LogoutRevoke(p)
    \/ \E p \in Procs : LogoutAudit(p)
    \/ \E p \in Procs, u \in UserIds : StartLogoutAll(p, u)
    \/ \E p \in Procs : LogoutAllRevoke(p)
    \/ \E p \in Procs : LogoutAllAudit(p)
    \/ SweepRefreshTokens
    \/ Tick

Spec == Init /\ [][Next]_vars

\* Ephemeral tokens mailed before the first modelled request, at time 0:
\* magic links for u1's address and for an address that has no user yet.
InitMagicLinks ==
    {[id |-> 4, email |-> "u1@x"], [id |-> 5, email |-> "new@x"]}

InitMagic ==
    InitStore({[id |-> m.id, email |-> m.email,
                token_hash |-> hash_token(generate_secure_token(m.id)),
                expires_at |-> 0 + MAGIC_LINK_TTL, used_at |-> None] :
                   m \in InitMagicLinks},
              {},
              {generate_secure_token(m.id) : m \in InitMagicLinks},
              6)

\* Token-issuing flows: magic links, login, refresh, the sweep, the clock.
NextMagic ==
    \/ \E p \in Procs, e \in Emails : StartRequestMagicLink(p, e)
    \/ \E p \in Procs : RequestMagicLinkCreate(p)
    \/ \E p \in Procs, t \in mailed \cup {UnknownToken} :
          StartVerifyMagicLink(p, t)
    \/ \E p \in Procs : VerifyMagicLinkFind(p)
    \/ \E p \in Procs : VerifyMagicLinkMarkUsed(p)
    \/ \E p \in Procs : VerifyMagicLinkFindUser(p)
    \/ \E p \in Procs : VerifyMagicLinkSetVerified(p)
    \/ \E p \in Procs : VerifyMagicLinkCreateUser(p)
    \/ \E p \in Procs : VerifyMagicLinkCreateTokens(p)
    \/ \E p \in Procs : VerifyMagicLinkUpdateLastLogin(p)
    \/ \E p \in Procs : VerifyMagicLinkAudit(p)
    \/ \E p \in Procs, e \in {"u1@x", "new@x"}, pw \in Passwords :
          StartLogin(p, e, pw)
    \/ \E p \in Procs : LoginFindUser(p)
    \/ \E p \in Procs : LoginCreateTokens(p)
    \/ \E p \in Procs : LoginUpdateLastLogin(p)
    \/ \E p \in Procs : LoginAudit(p)
    \/ \E p \in Procs, t \in issued \cup {ForgedToken} : StartRefresh(p, t)
    \/ \E p \in Procs : RefreshFind(p)
    \/ \E p \in Procs : RefreshRevoke(p)
    \/ \E p \in Procs : RefreshCreateTokens(p)
    \/ SweepMagicLinkTokens
    \/ Tick

SpecMagic == InitMagic /\ [][NextMagic]_vars

\* A reset token mailed to each user at time 0.
InitPasswordResets ==
    {[id |-> 4, user_id |-> "u1"], [id |-> 5, user_id |-> "u2"]}

InitReset ==
    InitStore({},
              {[id |-> m.id, user_id |-> m.user_id,
                token_hash |-> hash_token(generate_secure_token(m.id)),
                expires_at |-> 0 + PASSWORD_RESET_TTL, used_at |-> None] :
                   m \in InitPasswordResets},
              {generate_secure_token(m.id) : m \in InitPasswordResets},
              6)

\* Password-reset flows, the sweep, the clock.
NextReset ==
    \/ \E p \in Procs, e \in Emails : StartRequestPasswordReset(p, e)
    \/ \E p \in Procs : RequestPasswordResetFindUser(p)
    \/ \E p \in Procs : RequestPasswordResetCreate(p)
    \/ \E p \in Procs : RequestPasswordResetAudit(p)
    \/ \E p \in Procs, t \in mailed \cup {UnknownToken} :
          StartVerifyResetToken(p, t)
    \/ \E p \in Procs : VerifyResetTokenFind(p)
    \/ \E p \in Procs, t \in mailed \cup {UnknownToken},
          pw \in NewPasswords : StartCompletePasswordReset(p, t, pw)
    \/ \E p \in Procs : CompletePasswordResetFind(p)
    \/ \E p \in Procs : CompletePasswordResetFindUser(p)
    \/ \E p \in Procs : CompletePasswordResetUpdatePassword(p)
    \/ \E p \in Procs : CompletePasswordResetMarkUsed(p)
    \/ \E p \in Procs : CompletePasswordResetRevokeAll(p)
    \/ \E p \in Procs : CompletePasswordResetAudit(p)
    \/ SweepPasswordResetTokens
    \/ Tick

SpecReset == InitReset /\ [][NextReset]_vars

\* Password flows next to the sessions they are to end: change_password,
\* complete_password_reset, refresh, the clock.
NextPassword ==
    \/ \E p \in Procs, u \in UserIds, cur \in Passwords,
          new \in NewPasswords : StartChangePassword(p, u, cur, new)
    \/ \E p \in Procs : ChangePasswordFindUser(p)
    \/ \E p \in Procs : ChangePasswordUpdatePassword(p)
    \/ \E p \in Procs : ChangePasswordAudit(p)
    \/ \E p \in Procs, t \in mailed, pw \in NewPasswords :
          StartCompletePasswordReset(p, t, pw)
    \/ \E p \in Procs : CompletePasswordResetFind(p)
    \/ \E p \in Procs : CompletePasswordResetFindUser(p)
    \/ \E p \in Procs : CompletePasswordResetUpdatePassword(p)
    \/ \E p \in Procs : CompletePasswordResetMarkUsed(p)
    \/ \E p \in Procs : CompletePasswordResetRevokeAll(p)
    \/ \E p \in Procs : CompletePasswordResetAudit(p)
    \/ \E p \in Procs, t \in issued : StartRefresh(p, t)
    \/ \E p \in Procs : RefreshFind(p)
    \/ \E p \in Procs : RefreshRevoke(p)
    \/ \E p \in Procs : RefreshCreateTokens(p)
    \/ Tick

SpecPassword == InitReset /\ [][NextPassword]_vars

\* The rate limiter on its own: callers of check_and_increment, the clock.
NextRate ==
    \/ \E p \in RateProcs, k \in RateKeys : StartCheckAndIncrement(p, k)
    \/ \E p \in RateProcs : CheckAndIncrementUpsert(p)
    \/ Tick

SpecRate == Init /\ [][NextRate]_vars

\* check next to check_and_increment, on one key, with as many
\* check_and_increment calls as it takes to exceed the maximum.
NextCheck ==
    \/ \E p \in 1..(RATE_MAX_REQUESTS + 1) : StartCheckAndIncrement(p, "u1@x")
    \/ \E p \in 1..(RATE_MAX_REQUESTS + 1) : CheckAndIncrementUpsert(p)
    \/ \E p \in CheckProcs : StartCheck(p, "u1@x")
    \/ \E p \in CheckProcs : CheckSelect(p)
    \/ Tick

SpecCheck == Init /\ [][NextCheck]_vars

\* The auto-ban middleware in front of the application, from startup on.
\* ip_bans starts empty or with a ban of "ip1" that an earlier run persisted.
InitIpBans ==
    {[i \in Ips |-> IF i = "ip1" THEN r ELSE None] :
        r \in {None, Some(BanEntry("earlier", AUTOBAN_BAN_DURATION_SECS))}}

InitBan ==
    \E rows \in InitIpBans, en \in BOOLEAN :
        /\ InitCore({}, {}, {}, 4)
        /\ InitAutoBan(rows, en)

NextBan ==
    \/ LoadActiveBans
    \/ LoadBans
    \/ \E m \in BanProcs, i \in Ips, path \in Paths :
          MiddlewareCall(m, Some(i), path)
    \/ \E m \in BanProcs : MiddlewareCall(m, None, WpLoginPath)
    \/ \E m \in BanProcs : MiddlewareIsBanned(m)
    \/ \E m \in BanProcs : RecordStrikeCount(m)
    \/ \E m \in BanProcs : RecordStrikeDrop(m)
    \/ \E m \in BanProcs : RecordStrikeBan(m)
    \/ \E m \in BanProcs : RecordStrikeUnlock(m)
    \/ \E m \in BanProcs : RecordStrikeSpawn(m)
    \/ \E t \in persist : PersistBan(t)
    \/ CleanupExpiredStart
    \/ CleanupExpiredBanned
    \/ CleanupExpiredStrikes
    \/ Tick

SpecBan == InitBan /\ [][NextBan]_vars

\* Login requests on their way through the application: the auto-ban
\* middleware, the login handler, AuthService::login.
NextLoginRequest ==
    \/ LoadActiveBans
    \/ LoadBans
    \/ \E m \in Procs, ip \in {None} \cup {Some(i) : i \in Ips} :
          MiddlewareCall(m, ip, LoginPath)
    \/ \E m \in Procs : MiddlewareIsBanned(m)
    \/ \E m \in Procs, p \in Procs, e \in {"u1@x", "u2@x"},
          pw \in Passwords : login_handler(m, p, e, pw)
    \/ \E p \in Procs : LoginFindUser(p)
    \/ \E p \in Procs : LoginCreateTokens(p)
    \/ \E p \in Procs : LoginUpdateLastLogin(p)
    \/ \E p \in Procs : LoginAudit(p)
    \/ Tick

SpecLoginRequest == Init /\ [][NextLoginRequest]_vars

\* The users table with its second user as registered with a password, as
\* soft-deleted, or as created by a magic link (no password).
InitLogin ==
    /\ InitAutoBan([i \in Ips |-> None], TRUE)
    /\ \E u2 \in {UserRow("u2@x", Some(PasswordHash("pwB")), Some(0)),
                   [UserRow("u2@x", Some(PasswordHash("pwB")), Some(0))
                       EXCEPT !.deleted_at = Some(0)],
                   UserRow("u2@x", None, Some(0))} :
          /\ users = [u \in UserIds |->
                IF u = "u1"
                THEN [UserRow("u1@x", Some(PasswordHash("pwA")), Some(0))
                            EXCEPT !.role = "admin"]
                ELSE u2]
    /\ now = 0
    /\ refresh_tokens =
          {[id |-> s.id, user_id |-> s.user_id, token_hash |-> InitToken(s)[2],
            expires_at |-> 0 + REFRESH_RECORD_TTL,
            revoked_at |-> s.revoked_at] : s \in InitSessions}
    /\ magic_link_tokens = {}
    /\ password_reset_tokens = {}
    /\ audit_logs = {<<"UserLogin", u>> : u \in UserIds}
    /\ next_id = 4
    /\ calls = [p \in Procs |-> IdleCall]
    /\ issued = {InitToken(s)[1] : s \in InitSessions}
    /\ mailed = {}
    /\ rotated = {InitToken(s)[1] : s \in {x \in InitSessions : x.id = 1}}
    /\ revoked_all = {}
    /\ logged_out = {}
    /\ pw_updates = {}
    /\ rate_limits = [k \in RateKeys |-> None]
    /\ rl_calls = [p \in RateProcs |-> IdleRateCall]
    /\ rl_log = [k \in RateKeys |-> <<>>]
    /\ rl_checks = [p \in CheckProcs |-> IdleCheck]
    /\ authn = [a \in AuthnProcs |-> IdleAuthn]
    /\ probe = None

\* Logins with every pairing of address and password.
NextLogin ==
    \/ \E p \in Procs, e \in Emails, pw \in Passwords : StartLogin(p, e, pw)
    \/ \E p \in Procs : LoginFindUser(p)
    \/ \E p \in Procs : LoginCreateTokens(p)
    \/ \E p \in Procs : LoginUpdateLastLogin(p)
    \/ \E p \in Procs : LoginAudit(p)
    \/ Tick

SpecLogin == InitLogin /\ [][NextLogin]_vars

\* The flows that write a token record: login, request_magic_link,
\* request_password_reset.
NextSecrets ==
    \/ \E p \in Procs, e \in {"u1@x", "u2@x"}, pw \in Passwords :
          StartLogin(p, e, pw)
    \/ \E p \in Procs : LoginFindUser(p)
    \/ \E p \in Procs : LoginCreateTokens(p)
    \/ \E p \in Procs : LoginUpdateLastLogin(p)
    \/ \E p \in Procs : LoginAudit(p)
    \/ \E p \in Procs, e \in Emails : StartRequestMagicLink(p, e)
    \/ \E p \in Procs : RequestMagicLinkCreate(p)
    \/ \E p \in Procs, e \in Emails : StartRequestPasswordReset(p, e)
    \/ \E p \in Procs : RequestPasswordResetFindUser(p)
    \/ \E p \in Procs : RequestPasswordResetCreate(p)
    \/ \E p \in Procs : RequestPasswordResetAudit(p)
    \/ Tick

SpecSecrets == Init /\ [][NextSecrets]_vars

\* The matcher on its own.
NextPatterns == \E path \in PatternInputs : Matches(path)

SpecPatterns == Init /\ [][NextPatterns]_vars

\* JwtService on its own: tokens made here and verified later, tokens made
\* elsewhere, the clock.
NextJwt ==
    \/ \E a \in AuthnProcs, u \in UserIds : JwtCreateAccess(a, u)
    \/ \E a \in AuthnProcs, u \in UserIds : JwtCreateRefresh(a, u)
    \/ \E a \in AuthnProcs, op \in {"access", "refresh"}, t \in JwtInputs :
          JwtPresent(a, op, t)
    \/ \E a \in AuthnProcs : JwtVerify(a)
    \/ Tick

SpecJwt == Init /\ [][NextJwt]_vars

\* The session token signed at time 0 with u1's live rotation token.
InitAccessTokens == {create_access_token("u1", 2, 0)}

\* Requests that present u1's session token, next to the flows that end
\* u1's sessions: logout, logout_all, complete_password_reset, the sweep.
NextAccess ==
    \/ \E a \in AuthnProcs,
          t \in {None} \cup {Some(x) : x \in InitAccessTokens} :
          from_request(a, t)
    \/ \E p \in Procs, t \in issued : StartLogout(p, t, "u1")
    \/ \E p \in Procs : LogoutRevoke(p)
    \/ \E p \in Procs : LogoutAudit(p)
    \/ \E p \in Procs : StartLogoutAll(p, "u1")
    \/ \E p \in Procs : LogoutAllRevoke(p)
    \/ \E p \in Procs : LogoutAllAudit(p)
    \/ \E p \in Procs :
          StartCompletePasswordReset(p, generate_secure_token(4), "pwC")
    \/ \E p \in Procs : CompletePasswordResetFind(p)
    \/ \E p \in Procs : CompletePasswordResetFindUser(p)
    \/ \E p \in Procs : CompletePasswordResetUpdatePassword(p)
    \/ \E p \in Procs : CompletePasswordResetMarkUsed(p)
    \/ \E p \in Procs : CompletePasswordResetRevokeAll(p)
    \/ \E p \in Procs : CompletePasswordResetAudit(p)
    \/ SweepRefreshTokens
    \/ Tick

SpecAccess == InitReset /\ [][NextAccess]_vars

\* The two issuance endpoints, for addresses with and without a user.
NextIssue ==
    \/ \E p \in Procs, e \in Emails : StartRequestMagicLink(p, e)
    \/ \E p \in Procs : RequestMagicLinkCreate(p)
    \/ \E p \in Procs, e \in Emails : StartRequestPasswordReset(p, e)
    \/ \E p \in Procs : RequestPasswordResetFindUser(p)
    \/ \E p \in Procs : RequestPasswordResetCreate(p)
    \/ \E p \in Procs : RequestPasswordResetAudit(p)
    \/ Tick

SpecIssue == Init /\ [][NextIssue]_vars

\* The sweep next to the calls that look the records up: the magic links
\* of InitMagicLinks and a reset link of "u1", all mailed at time 0, and
\* the sessions of InitSessions.
InitSweep ==
    InitStore({[id |-> m.id, email |-> m.email,
                token_hash |-> hash_token(generate_secure_token(m.id)),
                expires_at |-> 0 + MAGIC_LINK_TTL, used_at |-> None] :
                   m \in InitMagicLinks},
              {[id |-> 6, user_id |-> "u1",
                token_hash |-> hash_token(generate_secure_token(6)),
                expires_at |-> 0 + PASSWORD_RESET_TTL, used_at |-> None]},
              {generate_secure_token(m.id) : m \in InitMagicLinks}
                 \cup {generate_secure_token(6)},
              7)

NextSweep ==
    \/ \E p \in Procs, t \in issued : StartRefresh(p, t)
    \/ \E p \in Procs : RefreshFind(p)
    \/ \E p \in Procs : RefreshRevoke(p)
    \/ \E p \in Procs : RefreshCreateTokens(p)
    \/ \E p \in Procs, t \in mailed : StartVerifyMagicLink(p, t)
    \/ \E p \in Procs : VerifyMagicLinkFind(p)
    \/ \E p \in Procs : VerifyMagicLinkMarkUsed(p)
    \/ \E p \in Procs : VerifyMagicLinkFindUser(p)
    \/ \E p \in Procs : VerifyMagicLinkSetVerified(p)
    \/ \E p \in Procs : VerifyMagicLinkCreateUser(p)
    \/ \E p \in Procs : VerifyMagicLinkCreateTokens(p)
    \/ \E p \in Procs : VerifyMagicLinkUpdateLastLogin(p)
    \/ \E p \in Procs : VerifyMagicLinkAudit(p)
    \/ \E p \in Procs, t \in mailed :
          StartCompletePasswordReset(p, t, "pwC")
    \/ \E p \in Procs : CompletePasswordResetFind(p)
    \/ \E p \in Procs : CompletePasswordResetFindUser(p)
    \/ \E p \in Procs : CompletePasswordResetUpdatePassword(p)
    \/ \E p \in Procs : CompletePasswordResetMarkUsed(p)
    \/ \E p \in Procs : CompletePasswordResetRevokeAll(p)
    \/ \E p \in Procs : CompletePasswordResetAudit(p)
    \/ SweepRefreshTokens
    \/ SweepMagicLinkTokens
    \/ SweepPasswordResetTokens
    \/ Tick

SpecSweep == InitSweep /\ [][NextSweep]_vars

\* ------------------------------------------------------------------ claims

Finished(p, op) == calls[p].op = op /\ calls[p].pc = "done"
Rejected == {"InvalidCredentials", "TokenExpired"}
TokenFlows == {"login", "refresh_tokens", "verify_magic_link"}

\* C1: once a refresh_tokens call presenting a rotation token has succeeded,
\* every refresh_tokens call that presents the same raw token and starts
\* afterwards ends with InvalidCredentials or TokenExpired.
C1_RotatedTokenIsRejected ==
    \A p \in Procs :
        (Finished(p, "refresh_tokens") /\ Unwrap(calls[p].pre).rotated)
            => calls[p].result \in Rejected

C1_Witness ==
    \E p, q \in Procs :
        /\ q < p
        /\ Finished(q, "refresh_tokens") /\ calls[q].result = "Ok"
        /\ Finished(p, "refresh_tokens")
        /\ calls[p].token = calls[q].token
        /\ Unwrap(calls[p].pre).rotated
        /\ calls[p].result = "InvalidCredentials"

\* C2: of the refresh_tokens calls that present the same raw rotation
\* token, at most one returns a token pair.
C2_AtMostOneRotation ==
    \A p, q \in Procs :
        (/\ p # q
         /\ Finished(p, "refresh_tokens") /\ Finished(q, "refresh_tokens")
         /\ calls[p].token = calls[q].token
         /\ calls[p].result = "Ok")
            => (calls[q].result # "Ok" /\ ~IsSome(calls[q].created))

\* C3: of the verify_magic_link calls that present the same raw magic-link
\* token, at most one returns a session.
C3_AtMostOneMagicLinkLogin ==
    \A p, q \in Procs :
        (/\ p # q
         /\ Finished(p, "verify_magic_link")
         /\ Finished(q, "verify_magic_link")
         /\ calls[p].token = calls[q].token
         /\ calls[p].result = "Ok")
            => calls[q].result # "Ok"

\* C4: of the complete_password_reset calls that present the same raw reset
\* token, at most one succeeds, and update_password runs at most once on
\* behalf of the token.
C4_AtMostOnePasswordReset ==
    /\ \A p, q \in Procs :
          (/\ p # q
           /\ Finished(p, "complete_password_reset")
           /\ Finished(q, "complete_password_reset")
           /\ calls[p].token = calls[q].token
           /\ calls[p].result = "Ok")
              => calls[q].result # "Ok"
    /\ \A u, v \in pw_updates : u[1] = v[1] => u[2] = v[2]

\* C5: when a refresh_tokens call has ended, the presented record was
\* revoked by it if and only if the call inserted a new record and
\* returned tokens.
C5_RefreshIsAtomic ==
    \A p \in Procs :
        Finished(p, "refresh_tokens")
            => (calls[p].did_revoke
                  <=> (calls[p].result = "Ok" /\ IsSome(calls[p].created)))

\* C6: login, refresh_tokens and verify_magic_link hold a token pair only
\* from the step that wrote the new rotation record for it, and a call of
\* these flows that ends with Ok returns a pair whose record it inserted;
\* a call whose INSERT failed ends with an error and no pair.
C6_TokensOnlyWithStoredRecord ==
    [][ \A p \in Procs :
          /\ (~IsSome(calls[p].ret) /\ IsSome(calls'[p].ret))
                 => \E r \in refresh_tokens' \ refresh_tokens :
                       /\ r.id = Unwrap(calls'[p].created)
                       /\ r.token_hash =
                             hash_token(Unwrap(calls'[p].ret).refresh_token)
                       /\ r.user_id = Unwrap(calls'[p].ret).access_token.sub
                       /\ ~IsSome(r.revoked_at)
          /\ (/\ calls'[p].pc = "done"
              /\ calls'[p].op \in TokenFlows)
                 => IF calls'[p].result = "Ok"
                    THEN IsSome(calls'[p].ret) /\ IsSome(calls'[p].created)
                    ELSE ~IsSome(calls'[p].ret)
      ]_vars

C6_Witness ==
    /\ \E p \in Procs :
          /\ Finished(p, "verify_magic_link") /\ calls[p].result = "Ok"
          /\ \E r \in refresh_tokens : r.id = Unwrap(calls[p].created)
    /\ \E q \in Procs :
          /\ Finished(q, "login") /\ calls[q].result = "DatabaseError"
          /\ ~IsSome(calls[q].created) /\ ~IsSome(calls[q].ret)

\* C7: a rotation record that is revoked or past its expiry never becomes
\* Active again, the lookup of refresh_tokens lets a call pass only while
\* the record is Active, and a call that starts on such a record never
\* returns tokens although its signature verifies.
C7_RevokedOrExpiredStaysUnusable ==
    [][ /\ \A r \in refresh_tokens, r2 \in refresh_tokens' :
              (r2.id = r.id /\ (IsSome(r.revoked_at) \/ ~(r.expires_at > now)))
                 => (IsSome(r2.revoked_at) \/ ~(r2.expires_at > now'))
        /\ \A p \in Procs :
              (calls[p].pc = "refresh_find" /\ calls'[p].pc = "refresh_revoke")
                 => RecordState(Unwrap(calls[p].token)) = "Active"
        /\ \A p \in Procs :
              (/\ calls'[p].op = "refresh_tokens" /\ calls'[p].pc = "done"
               /\ Unwrap(calls'[p].pre).state \in {"Revoked", "Expired"})
                 => calls'[p].result \in Rejected
      ]_vars

C7_Witness ==
    \E p \in Procs :
        /\ Finished(p, "refresh_tokens")
        /\ Unwrap(calls[p].pre).state = "Revoked"
        /\ Unwrap(calls[p].token).sig /\ Unwrap(calls[p].token).exp > now
        /\ calls[p].result = "InvalidCredentials"

\* C8: once used_at of a magic-link or password-reset record is set, no
\* step changes its value, and the lookups of verify_magic_link and
\* complete_password_reset let a call pass only while the record's used_at
\* is null and its expiry is in the future.
C8_UsedAtIsImmutable ==
    [][ /\ \A r \in magic_link_tokens, r2 \in magic_link_tokens' :
              (r2.id = r.id /\ IsSome(r.used_at)) => r2.used_at = r.used_at
        /\ \A r \in password_reset_tokens, r2 \in password_reset_tokens' :
              (r2.id = r.id /\ IsSome(r.used_at)) => r2.used_at = r.used_at
        /\ \A p \in Procs :
              (/\ calls[p].pc \in {"verify_magic_link_find",
                                   "complete_password_reset_find"}
               /\ IsSome(calls'[p].stored))
                 => LET r == Unwrap(calls'[p].stored)
                    IN  ~IsSome(r.used_at) /\ r.expires_at > now
      ]_vars

\* C9: the revoke statement of logout_all(subject) leaves every record of
\* the subject revoked and changes no record of another subject; the
\* records it revoked stay revoked, and a refresh that starts afterwards
\* with one of them is rejected.
C9_LogoutAllRevokesTheSubjectOnly ==
    [][ /\ \A p \in Procs :
              (/\ calls[p].pc = "logout_all_revoke"
               /\ calls'[p].pc = "logout_all_audit")
                 => LET uid == Unwrap(calls[p].user_id)
                    IN  /\ \A r \in refresh_tokens :
                              r.user_id = uid
                                 => \E r2 \in refresh_tokens' :
                                       r2.id = r.id /\ IsSome(r2.revoked_at)
                        /\ {r \in refresh_tokens : r.user_id # uid}
                              = {r \in refresh_tokens' : r.user_id # uid}
        /\ \A r \in refresh_tokens' :
              r.id \in revoked_all' => IsSome(r.revoked_at)
        /\ \A p \in Procs :
              (/\ calls'[p].op = "refresh_tokens" /\ calls'[p].pc = "done"
               /\ Unwrap(calls'[p].pre).revoked_all)
                 => calls'[p].result \in Rejected
      ]_vars

C9_Witness ==
    \E p \in Procs :
        /\ Finished(p, "refresh_tokens")
        /\ Unwrap(calls[p].pre).revoked_all
        /\ calls[p].result = "InvalidCredentials"
        /\ \E r \in refresh_tokens :
              r.user_id # Unwrap(calls[p].token).sub /\ ~IsSome(r.revoked_at)

\* C10: the revoke statement of logout(token, user) revokes the record whose
\* hash is hash_token(token) and changes no other record; a refresh that
\* starts afterwards with that token is rejected.
C10_LogoutRevokesOneRecord ==
    [][ /\ \A p \in Procs :
              (calls[p].pc = "logout_revoke" /\ calls'[p].pc = "logout_audit")
                 => LET h == hash_token(Unwrap(calls[p].token))
                    IN  /\ \A r \in refresh_tokens :
                              r.token_hash = h
                                 => \E r2 \in refresh_tokens' :
                                       r2.id = r.id /\ IsSome(r2.revoked_at)
                        /\ {r \in refresh_tokens : r.token_hash # h}
                              = {r \in refresh_tokens' : r.token_hash # h}
        /\ \A p \in Procs :
              (/\ calls'[p].op = "refresh_tokens" /\ calls'[p].pc = "done"
               /\ Unwrap(calls'[p].pre).logged_out)
                 => calls'[p].result \in Rejected
      ]_vars

C10_Witness ==
    \E p \in Procs :
        /\ Finished(p, "refresh_tokens")
        /\ Unwrap(calls[p].pre).logged_out
        /\ calls[p].result = "InvalidCredentials"
        /\ \E r \in refresh_tokens :
              /\ r.user_id = Unwrap(calls[p].token).sub
              /\ ~IsSome(r.revoked_at)

\* C11: a logout_all(subject) call that starts after an earlier
\* logout_all(subject) returned Ok ends without a typed failure of its own
\* (only a failing store statement ends it early); its revoke statement
\* keeps the revoked_at of every revoked record and, when the subject got
\* no new record in between, changes no record at all.
C11_LogoutAllIsIdempotent ==
    [][ \A p \in Procs :
          /\ (/\ calls[p].pc = "logout_all_revoke"
              /\ calls'[p].pc = "logout_all_audit"
              /\ Unwrap(calls[p].pre).after_logout_all)
                 => /\ \A r \in refresh_tokens :
                          IsSome(r.revoked_at) => r \in refresh_tokens'
                    /\ (\A r \in refresh_tokens :
                           r.user_id = Unwrap(calls[p].user_id)
                              => IsSome(r.revoked_at))
                          => refresh_tokens' = refresh_tokens
          /\ (/\ calls'[p].op = "logout_all" /\ calls'[p].pc = "done"
              /\ Unwrap(calls'[p].pre).after_logout_all)
                 => calls'[p].result \in {"Ok", "DatabaseError"}
      ]_vars

C11_Witness ==
    \E p, q \in Procs :
        /\ q < p
        /\ Finished(q, "logout_all") /\ calls[q].result = "Ok"
        /\ Finished(p, "logout_all") /\ calls[p].result = "Ok"
        /\ calls[p].user_id = calls[q].user_id
        /\ Unwrap(calls[p].pre).after_logout_all
        /\ calls[p].did_revoke
        /\ now > 0
        /\ \E r \in refresh_tokens :
              /\ r.user_id = Unwrap(calls[p].user_id)
              /\ r.id \in revoked_all
              /\ r.revoked_at = Some(0)

PasswordFlows == {"change_password", "complete_password_reset"}

\* C12: once change_password or complete_password_reset has returned Ok
\* for a subject, every rotation record of that subject that was issued
\* before the call started is revoked.
C12_PasswordChangeEndsSessions ==
    \A p \in Procs :
        (/\ calls[p].op \in PasswordFlows /\ calls[p].pc = "done"
         /\ calls[p].result = "Ok")
            => \A r \in refresh_tokens :
                  (/\ r.user_id = Unwrap(calls[p].user_id)
                   /\ r.id < Unwrap(calls[p].pre).mark)
                     => IsSome(r.revoked_at)

RateDone(p) == rl_calls[p].pc = "done" /\ rl_calls[p].result = "Ok"

\* C13: the counts returned inside one stored window are 1, 2, .., N in
\* this order and N is the stored count; a call is flagged exactly when
\* its count is above max_requests; a call on a key without a window, or
\* made when more than window_seconds have passed since window_start,
\* returns 1, starts the window at the current time and is not flagged,
\* and any other call returns the stored count plus one.
C13_FixedWindowCounts ==
    [][ /\ \A k \in RateKeys :
              IsSome(rate_limits'[k])
                 => rl_log'[k] = [i \in 1..Unwrap(rate_limits'[k]).count |-> i]
        /\ \A p \in RateProcs :
              (rl_calls[p].pc = "upsert" /\ rl_calls'[p].result = "Ok")
                 => LET c == rl_calls'[p]
                        old == rate_limits[Unwrap(c.key)]
                        made == Unwrap(c.window_start) + RATE_WINDOW_SECONDS
                    IN  /\ Unwrap(c.exceeded)
                              <=> Unwrap(c.count) > RATE_MAX_REQUESTS
                        /\ Unwrap(c.exceeded)
                              => Unwrap(c.count) >= RATE_MAX_REQUESTS + 1
                        /\ IF \/ ~IsSome(old)
                              \/ made - Unwrap(old).window_start
                                    > RATE_WINDOW_SECONDS
                           THEN /\ Unwrap(c.count) = 1
                                /\ ~Unwrap(c.exceeded)
                                /\ Unwrap(c.stored).window_start = now
                           ELSE /\ Unwrap(c.count) = Unwrap(old).count + 1
                                /\ Unwrap(c.stored).window_start
                                      = Unwrap(old).window_start
      ]_vars

C13_Witness ==
    \E p, q, r \in RateProcs :
        /\ RateDone(p) /\ RateDone(q) /\ RateDone(r)
        /\ rl_calls[p].key = rl_calls[q].key /\ rl_calls[q].key = rl_calls[r].key
        /\ Unwrap(rl_calls[p].count) = RATE_MAX_REQUESTS
        /\ ~Unwrap(rl_calls[p].exceeded)
        /\ Unwrap(rl_calls[q].count) = RATE_MAX_REQUESTS + 1
        /\ Unwrap(rl_calls[q].exceeded)
        /\ Unwrap(rl_calls[q].stored).window_start = 0
        /\ Unwrap(rl_calls[r].count) = 1
        /\ Unwrap(rl_calls[r].stored).window_start > 0

\* C14: the check_and_increment calls that landed in one window of a key
\* returned pairwise distinct counts, these counts are exactly 1 .. the
\* stored count, and the stored count is the number of those calls.
C14_NoLostIncrement ==
    \A k \in RateKeys :
        IsSome(rate_limits[k])
           => LET row == Unwrap(rate_limits[k])
                  landed == {p \in RateProcs :
                               /\ RateDone(p) /\ rl_calls[p].key = Some(k)
                               /\ Unwrap(rl_calls[p].stored).window_start
                                     = row.window_start}
              IN  /\ \A p, q \in landed :
                        p # q => rl_calls[p].count # rl_calls[q].count
                  /\ {Unwrap(rl_calls[p].count) : p \in landed} = 1..row.count
                  /\ Cardinality(landed) = row.count

C14_Witness ==
    \E p, q, r \in RateProcs :
        /\ p # q /\ q # r /\ p # r
        /\ RateDone(p) /\ RateDone(q) /\ RateDone(r)
        /\ rl_calls[p].key = rl_calls[q].key /\ rl_calls[q].key = rl_calls[r].key
        /\ rl_calls[q].overlap /\ rl_calls[r].overlap
        /\ Unwrap(rl_calls[q].count) < Unwrap(rl_calls[p].count)
        /\ Unwrap(rate_limits[Unwrap(rl_calls[p].key)]).count = 3

\* Strike k of an address's history counted as number n: the n latest
\* events up to k are strikes of n different requests from this address,
\* numbered 1..n, none later than the window after the first of them.
StrikeCounted(ip, k) ==
    LET h == strike_hist[ip]
        n == h[k].nth
    IN  /\ n >= 1 /\ n <= k /\ n <= AUTOBAN_THRESHOLD
        /\ \A j \in (k - n + 1)..k :
              /\ h[j].nth = j - (k - n)
              /\ h[j].req \in BanProcs
              /\ reqs[h[j].req].ip = Some(ip)
              /\ h[j].at - h[k - n + 1].at <= AUTOBAN_WINDOW_SECS
        /\ \A i, j \in (k - n + 1)..k : i # j => h[i].req # h[j].req
        \* the count starts again only after a ban, a sweep or the window
        /\ (n = 1 /\ k > 1)
              => \/ h[k - 1].nth \in {0, AUTOBAN_THRESHOLD}
                 \/ h[k].at - h[k - h[k - 1].nth].at > AUTOBAN_WINDOW_SECS

StrikeHistOk ==
    \A ip \in Ips :
        \A k \in 1..Len(strike_hist[ip]) :
            strike_hist[ip][k].nth # 0 => StrikeCounted(ip, k)

\* C16: a strike is counted per address and per window; the request whose
\* strike is number AUTOBAN_THRESHOLD of its address, and no other, goes
\* on to ban the address: record_strike returns true to it and the ban it
\* inserts makes is_banned true until the ban's expiry; a strike with a
\* lower number returns false and leaves the banned map alone.
C16_ThresholdBansAddress ==
    [][ /\ StrikeHistOk'
        /\ \A m \in BanProcs :
              /\ (reqs[m].pc = "record_strike" /\ reqs'[m].pc # "record_strike")
                    => /\ reqs'[m].pc = "drop_strikes"
                             <=> reqs'[m].nth = Some(AUTOBAN_THRESHOLD)
                       /\ reqs'[m].pc = "done"
                             <=> Unwrap(reqs'[m].nth) < AUTOBAN_THRESHOLD
                       /\ reqs'[m].pc = "done"
                             => /\ reqs'[m].newly_banned = Some(FALSE)
                                /\ banned' = banned
              /\ (reqs[m].pc = "ban_insert" /\ reqs'[m].pc # "ban_insert")
                    => LET ip == Unwrap(reqs[m].ip)
                           until == Unwrap(reqs[m].at)
                                       + AUTOBAN_BAN_DURATION_SECS
                       IN  /\ IsSome(banned'[ip])
                           /\ Unwrap(banned'[ip]).expires_at = until
                           /\ is_banned(ip)' <=> now' < until
                           /\ \A i \in Ips \ {ip} : banned'[i] = banned[i]
              /\ (reqs[m].pc = "spawn_persist" /\ reqs'[m].pc = "done")
                    => LET ip == Unwrap(reqs[m].ip)
                           until == Unwrap(reqs[m].at)
                                       + AUTOBAN_BAN_DURATION_SECS
                       IN  /\ reqs'[m].newly_banned = Some(TRUE)
                           /\ now' < until => is_banned(ip)'
      ]_vars

\* "ip1" is banned by two strikes of its own while "ip2", whose one strike
\* came from the request between them, is not.
C16_Witness ==
    /\ reqs[1].ip = Some("ip1") /\ reqs[1].newly_banned = Some(FALSE)
    /\ reqs[2].ip = Some("ip2") /\ reqs[2].newly_banned = Some(FALSE)
    /\ reqs[3].ip = Some("ip1") /\ reqs[3].newly_banned = Some(TRUE)
    /\ Len(strike_hist["ip1"]) = AUTOBAN_THRESHOLD
    /\ is_banned("ip1") /\ ~is_banned("ip2")
    /\ IsSome(strikes["ip2"]) /\ Unwrap(strikes["ip2"]).count = 1

\* The banned map holds the ban that request m inserted, or no entry for
\* that address; a later ban of the address would replace the entry.
BanNotReplaced(m) ==
    LET ip == Unwrap(reqs[m].ip)
    IN  IsSome(banned[ip])
           => Unwrap(banned[ip]).expires_at
                 = Unwrap(reqs[m].at) + AUTOBAN_BAN_DURATION_SECS

\* C17: an address that a request banned at time b (the time stamp of its
\* record_strike) is reported banned at every time before
\* b + AUTOBAN_BAN_DURATION_SECS and not banned from then on, whether
\* cleanup_expired has removed the entry, is in the middle of a run or has
\* never run.
C17_BanLastsExactlyItsDuration ==
    \A m \in BanProcs :
        (reqs[m].newly_banned = Some(TRUE) /\ BanNotReplaced(m))
           => (is_banned(Unwrap(reqs[m].ip))
                  <=> now < Unwrap(reqs[m].at) + AUTOBAN_BAN_DURATION_SECS)

\* The ban has run out, the entry is still in the map and a cleanup run
\* that started before the expiry has passed over it.
C17_Witness ==
    \E m \in BanProcs :
        /\ reqs[m].newly_banned = Some(TRUE)
        /\ now >= Unwrap(reqs[m].at) + AUTOBAN_BAN_DURATION_SECS
        /\ IsSome(banned[Unwrap(reqs[m].ip)])
        /\ sweeper.pc = "strikes"
        /\ ~is_banned(Unwrap(reqs[m].ip))

\* C18: once load_bans has run at startup, every address of a loaded row
\* is reported banned for as long as the row's expires_at lies in the
\* future, with no strike of that address needed.
C18_LoadedBansAreEnforced ==
    \A ip \in Ips :
        (/\ boot.pc = "serving"
         /\ IsSome(boot.rows[ip])
         /\ now < Unwrap(boot.rows[ip]).expires_at)
           => is_banned(ip)

\* A request from the loaded address was turned away although no strike
\* of that address was ever counted.
C18_Witness ==
    \E m \in BanProcs :
        /\ boot.pc = "serving" /\ IsSome(boot.rows["ip1"])
        /\ strike_hist["ip1"] = <<>>
        /\ reqs[m].ip = Some("ip1") /\ reqs[m].saw_banned = Some(TRUE)
        /\ reqs[m].outcome = "Forbidden"
        /\ is_banned("ip1")

\* The request's strike is in the history of some address.
Struck(m) ==
    \E ip \in Ips : \E k \in 1..Len(strike_hist[ip]) :
        strike_hist[ip][k].req = m

\* C19 (as stated): a request from an address that is_banned reports as
\* banned is never passed to the inner service, and no strike is counted
\* for an address while is_banned reports it as banned.
C19_BannedAddressIsShutOut ==
    [][ \A m \in BanProcs :
          /\ (/\ reqs[m].pc = "idle" /\ reqs'[m].pc # "idle"
              /\ IsSome(reqs'[m].ip)
              /\ is_banned(Unwrap(reqs'[m].ip)))
                => reqs'[m].outcome # "forwarded"
          /\ (reqs[m].pc = "record_strike" /\ reqs'[m].pc # "record_strike")
                => ~is_banned(Unwrap(reqs[m].ip))
      ]_vars

\* C19 (amended): with auto-ban enabled, a request for whose address the
\* middleware's is_banned lookup answers true is answered Forbidden in
\* that step: neither record_strike nor the inner service runs for it, the
\* strikes map is left alone, and no strike of this request is ever counted.
C19_BannedLookupRejects ==
    [][ \A m \in BanProcs :
          /\ (/\ reqs[m].pc = "is_banned" /\ reqs'[m].pc # "is_banned"
              /\ is_banned(Unwrap(reqs[m].ip)))
                => /\ reqs'[m].pc = "done"
                   /\ reqs'[m].outcome = "Forbidden"
                   /\ reqs'[m].at = None /\ reqs'[m].nth = None
                   /\ strikes' = strikes /\ strike_hist' = strike_hist
          /\ reqs'[m].saw_banned = Some(TRUE)
                => /\ reqs'[m].outcome = "Forbidden"
                   /\ ~Struck(m)'
      ]_vars

\* A request for the suspicious path from an address that another
\* request's strike had banned: Forbidden, and no strike of its own.
C19_Witness ==
    \E m, q \in BanProcs :
        /\ reqs[q].newly_banned = Some(TRUE)
        /\ reqs[m].ip = reqs[q].ip
        /\ reqs[m].path = Some(WpLoginPath)
        /\ reqs[m].saw_banned = Some(TRUE)
        /\ reqs[m].outcome = "Forbidden"
        /\ ~Struck(m)

\* C20: every answered request whose path the pattern matcher classifies
\* as suspicious was answered Forbidden, never forwarded to the inner
\* service, and had a strike counted for it.
C20_SuspiciousIsRejectedWithStrike ==
    \A m \in BanProcs :
        (reqs[m].pc = "done" /\ is_suspicious(Unwrap(reqs[m].path)))
           => /\ reqs[m].outcome = "Forbidden"
              /\ Struck(m)

\* C15: an AuthService::login call is at work only for a request that the
\* rate limiter has counted under its key and found within max_requests.
C15_RateLimitBeforeAuth ==
    \A p \in Procs :
        (calls[p].op = "login" /\ calls[p].pc \notin {"idle", "done"})
           => LET row == rate_limits[Unwrap(calls[p].email)]
              IN  /\ IsSome(row)
                  /\ Unwrap(row).count <= RATE_MAX_REQUESTS

BanUntil(m) == Unwrap(reqs[m].at) + AUTOBAN_BAN_DURATION_SECS

\* C21: once the strike that reaches the threshold has been counted for an
\* address, is_banned reports the address as banned (until the ban runs
\* out), and while the ban of that strike is not yet in the banned map the
\* address has no new strike entry.
C21_ThresholdAndBanAreOneStep ==
    \A m \in BanProcs :
        /\ (reqs[m].nth = Some(AUTOBAN_THRESHOLD) /\ now < BanUntil(m))
              => is_banned(Unwrap(reqs[m].ip))
        /\ reqs[m].pc \in {"drop_strikes", "ban_insert"}
              => ~IsSome(strikes[Unwrap(reqs[m].ip)])

\* C22: record_strike returns true with its ban in the banned map and its
\* persist_ban task spawned but not run; the run of a persist_ban task,
\* successful or not, ends the task and leaves the banned map and every
\* request alone; tasks come only from a returning record_strike.
C22_BanDoesNotWaitForDurableWrite ==
    [][ /\ \A m \in BanProcs :
              (reqs[m].pc = "spawn_persist" /\ reqs'[m].pc = "done")
                 => /\ reqs'[m].newly_banned = Some(TRUE)
                    /\ now' < BanUntil(m) => is_banned(Unwrap(reqs[m].ip))'
                    /\ \E t \in persist' : t.req = m
                    /\ ip_bans' = ip_bans
        /\ \A t \in persist :
              t \notin persist'
                 => /\ banned' = banned /\ reqs' = reqs
                    /\ persist' = persist \ {t}
        /\ ~(persist' \subseteq persist)
              => \E m \in BanProcs :
                    reqs[m].pc = "spawn_persist" /\ reqs'[m].pc = "done"
      ]_vars

\* The write of the ban of "ip2" failed: no row, no task left, and the
\* address is banned all the same.
C22_Witness ==
    \E m \in BanProcs :
        /\ reqs[m].ip = Some("ip2") /\ reqs[m].newly_banned = Some(TRUE)
        /\ persist = {} /\ ip_bans["ip2"] = None
        /\ is_banned("ip2")

\* C23: while a persist_ban task is spawned and has not finished, the
\* request that spawned it holds neither the strikes nor the banned guard.
C23_NoLockHeldDuringDurableWrite ==
    \A t \in persist :
        /\ locks.strikes # Some(t.req)
        /\ locks.banned # Some(t.req)

\* The task of a ban is pending; its request held both guards, one after
\* the other, on the way and has returned.
C23_Witness ==
    \E t \in persist :
        /\ reqs[t.req].pc = "done" /\ reqs[t.req].newly_banned = Some(TRUE)
        /\ IsSome(banned[t.ip])
        /\ Unwrap(banned[t.ip]).expires_at = t.expires_at
        /\ ~IsSome(strikes[t.ip])
        /\ locks = [strikes |-> None, banned |-> None]

IssueFlows == {"request_magic_link", "request_password_reset"}

LoginRefused ==
    [IdleCall EXCEPT !.op = "login", !.pc = "done",
                     !.result = "InvalidCredentials"]

\* C25: a login for an unknown address, for a deleted user, for a user
\* without a password or with the wrong password ends, in the step that
\* looked the user up, with InvalidCredentials and nothing else in its
\* result, and that step changes no user, token or audit state.
C25_LoginFailuresAreAlike ==
    [][\A p \in Procs :
          (/\ calls[p].op = "login" /\ calls[p].pc = "login_find_user"
           /\ calls'[p] # calls[p]
           /\ Unwrap(calls[p].pre).case # "match")
             => /\ [calls'[p] EXCEPT !.pre = None] = LoginRefused
                /\ users' = users
                /\ refresh_tokens' = refresh_tokens
                /\ magic_link_tokens' = magic_link_tokens
                /\ password_reset_tokens' = password_reset_tokens
                /\ audit_logs' = audit_logs
                /\ next_id' = next_id /\ issued' = issued
      ]_vars

\* Two refused logins side by side, one for a deleted or passwordless user
\* and one with a wrong password or an unknown address.
C25_Witness ==
    \E p, q \in Procs :
        /\ Finished(p, "login") /\ Finished(q, "login")
        /\ calls[p].result = "InvalidCredentials"
        /\ calls[q].result = "InvalidCredentials"
        /\ Unwrap(calls[p].pre).case \in {"deleted", "no_password"}
        /\ Unwrap(calls[q].pre).case \in {"unknown", "wrong_password"}

\* What the table `tokens` holds for the raw token a call presents.
EphemeralCase(tokens, token) ==
    LET rows == {r \in tokens : r.token_hash = hash_token(token)}
    IN  IF rows = {} THEN "unknown"
        ELSE LET r == CHOOSE r \in rows : TRUE
             IN  IF IsSome(r.used_at) THEN "consumed"
                 ELSE IF r.expires_at < now THEN "expired"
                 ELSE "live"

\* C26: the step of verify_magic_link and of complete_password_reset that
\* looks the presented token up ends the call with TokenExpired when the
\* record exists, is unconsumed and is past its expiry, and with
\* InvalidCredentials when the token is unknown or already consumed.
C26_ExpiredIsToldFromInvalid ==
    [][\A p \in Procs :
          /\ (calls[p].pc = "verify_magic_link_find" /\ calls'[p] # calls[p])
                => LET case == EphemeralCase(magic_link_tokens,
                                             Unwrap(calls[p].token))
                   IN  /\ case = "expired"
                            => calls'[p].result = "TokenExpired"
                       /\ case \in {"unknown", "consumed"}
                            => calls'[p].result = "InvalidCredentials"
          /\ (calls[p].pc = "complete_password_reset_find"
                 /\ calls'[p] # calls[p])
                => LET case == EphemeralCase(password_reset_tokens,
                                             Unwrap(calls[p].token))
                   IN  /\ case = "expired"
                            => calls'[p].result = "TokenExpired"
                       /\ case \in {"unknown", "consumed"}
                            => calls'[p].result = "InvalidCredentials"
      ]_vars

\* C27: a request that presents a session token signed at time 0 for a
\* user, before the token's own expiry, is authenticated with the token's
\* claims whatever logout, logout_all, complete_password_reset and the
\* sweep have done to the store; and two requests that present the same
\* token at the same time get the same outcome.
C27_AccessTokenOutlivesItsSession ==
    [][\A a \in AuthnProcs :
          (/\ authn[a].pc = "idle" /\ authn'[a].op = "from_request"
           /\ IsSome(authn'[a].token))
             => LET t == Unwrap(authn'[a].token)
                IN  /\ (t \in InitAccessTokens /\ now < t.exp)
                          => /\ authn'[a].outcome = "Ok"
                             /\ authn'[a].claims = Some(AccessClaimsOf(t))
                    /\ \A b \in AuthnProcs :
                          (/\ authn'[b].op = "from_request"
                           /\ authn'[b].token = authn'[a].token
                           /\ authn'[b].at = authn'[a].at)
                             => /\ authn'[b].outcome = authn'[a].outcome
                                /\ authn'[b].claims = authn'[a].claims
      ]_vars

\* A token was accepted twice when no rotation record of its user was
\* usable any more; a logout_all and a password reset have gone through.
C27_Witness ==
    /\ authn[1].outcome = "Ok" /\ authn[1].live = Some(FALSE)
    /\ authn[2].outcome = "Ok" /\ authn[2].live = Some(FALSE)
    /\ \E p \in Procs : Finished(p, "logout_all") /\ calls[p].result = "Ok"
    /\ \E p \in Procs :
          Finished(p, "complete_password_reset") /\ calls[p].result = "Ok"

JwtDone(a) == authn[a].pc = "done" /\ authn[a].op \in {"access", "refresh"}

\* C28: verify_access_token and verify_refresh_token answer Ok, with the
\* complete claim set, only for a token that carries the service's
\* signature, no issuer other than the configured one and an expiry in the
\* future; every other token gets TokenExpired, and then its expiry has
\* passed, or InvalidCredentials, and no claims.
C28_VerificationFailsClosed ==
    \A a \in AuthnProcs :
        JwtDone(a) =>
            LET c == authn[a]
                t == Unwrap(c.token)
            IN  /\ c.outcome \in {"Ok", "TokenExpired", "InvalidCredentials"}
                /\ c.outcome = "Ok"
                      => /\ t.sig
                         /\ "iss" \in DOMAIN t => t.iss = JwtIssuer
                         /\ t.exp > Unwrap(c.at)
                         /\ c.claims =
                               Some(IF c.op = "access" THEN AccessClaimsOf(t)
                                    ELSE RefreshClaimsOf(t))
                /\ c.outcome # "Ok" => c.claims = None
                /\ c.outcome = "TokenExpired" => ~(t.exp > Unwrap(c.at))

RawSecrets ==
    issued \cup mailed
      \cup {Unwrap(calls[p].ret).refresh_token :
               p \in {q \in Procs : IsSome(calls[q].ret)}}
      \cup {Unwrap(calls[p].token) :
               p \in {q \in Procs : IsSome(calls[q].token)}}

StoredHashes ==
    {r.token_hash : r \in refresh_tokens}
      \cup {r.token_hash : r \in magic_link_tokens}
      \cup {r.token_hash : r \in password_reset_tokens}

\* C30: hash_token never returns its input, and every rotation,
\* magic-link and password-reset record in the store holds the hash_token
\* of a secret, never a raw secret that a caller holds; every raw secret a
\* caller was handed by a successful call is stored as its hash_token.
C30_OnlyHashesAreStored ==
    /\ \A t \in RawSecrets : hash_token(t) # t /\ t \notin StoredHashes
    /\ \A h \in StoredHashes :
          /\ DOMAIN h = {"sha256"}
          /\ hash_token(h.sha256) = h
    /\ \A p \in Procs :
          /\ (Finished(p, "login") /\ calls[p].result = "Ok")
                => \E r \in refresh_tokens :
                      r.token_hash =
                         hash_token(Unwrap(calls[p].ret).refresh_token)
          /\ (calls[p].op \in IssueFlows /\ calls[p].pc = "done"
                 /\ IsSome(calls[p].token))
                => hash_token(Unwrap(calls[p].token)) \in StoredHashes

\* A login, and a magic-link or reset request, have handed out their
\* secrets and the records are in the store.
C30_Witness ==
    \E p, q \in Procs :
        /\ Finished(p, "login") /\ calls[p].result = "Ok"
        /\ hash_token(Unwrap(calls[p].ret).refresh_token) \in
              {r.token_hash : r \in refresh_tokens}
        /\ calls[q].op = "request_password_reset" /\ calls[q].pc = "done"
        /\ IsSome(calls[q].token)
        /\ hash_token(Unwrap(calls[q].token)) \in
              {r.token_hash : r \in password_reset_tokens}

\* C31: matches(path) is true exactly when path is an exact rule, begins
\* with a prefix rule, ends, once put in ASCII lower case, with a suffix
\* rule, or has '../' somewhere in it; /wp-login.php, /UPPER.PHP and
\* /../../etc/passwd are suspicious, /v1/auth/login, /admin and
\* /assets/index-abc123.js are not.
C31_MatcherRules ==
    IsSome(probe) =>
        LET path == Unwrap(probe).path
            n == Len(path)
            low == [i \in 1..n |->
                      IF path[i] \in DOMAIN AsciiLower
                      THEN AsciiLower[path[i]] ELSE path[i]]
            rule ==
                \/ \E r \in exact : path = r
                \/ \E r \in prefixes :
                      Len(r) <= n /\ SubSeq(path, 1, Len(r)) = r
                \/ \E r \in suffixes :
                      Len(r) <= n /\ SubSeq(low, n - Len(r) + 1, n) = r
                \/ \E i \in 1..(n - 2) : SubSeq(path, i, i + 2) = <<".", ".", "/">>
        IN  /\ Unwrap(probe).matched = rule
            /\ path \in {WpLoginPath,
                          <<"/", "U", "P", "P", "E", "R", ".", "P", "H", "P">>,
                          <<"/", ".", ".", "/", ".", ".", "/", "e", "t", "c", "/", "p", "a", "s", "s", "w", "d">>}
                  => Unwrap(probe).matched
            /\ path \in {LoginPath, <<"/", "a", "d", "m", "i", "n">>,
                          <<"/", "a", "s", "s", "e", "t", "s", "/", "i", "n", "d", "e", "x", "-", "a", "b", "c", "1", "2", "3", ".", "j", "s">>}
                  => ~Unwrap(probe).matched

\* The matcher was asked about a path that only the lower-casing of the
\* suffix comparison makes suspicious.
C31_Witness ==
    /\ IsSome(probe)
    /\ Unwrap(probe).path = <<"/", "U", "P", "P", "E", "R", ".", "P", "H", "P">>
    /\ Unwrap(probe).matched

\* C32: when a login call has returned an error, no rotation record that
\* the call inserted is Active (unrevoked and unexpired) in the store.
C32_FailedLoginLeavesNoSession ==
    \A p \in Procs :
        (Finished(p, "login") /\ calls[p].result # "Ok")
          => \A r \in refresh_tokens :
                calls[p].created = Some(r.id)
                  => (IsSome(r.revoked_at) \/ ~(r.expires_at > now))

\* C33: when a complete_password_reset call has returned an error, it has
\* neither replaced the password hash nor consumed its reset token (and so
\* revoked nothing); a call that returned Ok has done all of them.
C33_PasswordResetAllOrNothing ==
    \A p \in Procs :
        Finished(p, "complete_password_reset")
          => IF calls[p].result = "Ok"
             THEN /\ <<Unwrap(calls[p].token), p>> \in pw_updates
                  /\ calls[p].did_revoke
             ELSE /\ <<Unwrap(calls[p].token), p>> \notin pw_updates
                  /\ ~calls[p].did_revoke

\* C34: once a logout_all(subject) call has returned Ok and the only other
\* call, a refresh_tokens call, has ended too (no login and no magic-link
\* verification took place), the subject has no Active rotation record.
C34_LogoutAllBeatsRefresh ==
    \A p, q \in Procs :
        (/\ Finished(p, "logout_all") /\ calls[p].result = "Ok"
         /\ Finished(q, "refresh_tokens"))
          => \A r \in refresh_tokens :
                r.user_id = Unwrap(calls[p].user_id)
                  => (IsSome(r.revoked_at) \/ ~(r.expires_at > now))

\* C35: record_strike counts a strike together with the entry of its
\* address only while its time stamp is no more than AUTOBAN_WINDOW_SECS
\* after the entry's first_seen; otherwise (no entry, or the window has
\* elapsed) the strike is number 1 of a window that starts at its time
\* stamp, and it bans nobody.
C35_StrikesOutsideWindowDoNotCount ==
    [][ \A m \in BanProcs :
          (reqs[m].pc = "record_strike" /\ reqs'[m].pc # "record_strike")
            => LET ip == Unwrap(reqs[m].ip)
                   at == Unwrap(reqs[m].at)
                   old == strikes[ip]
               IN  IF /\ IsSome(old)
                      /\ at - Unwrap(old).first_seen <= AUTOBAN_WINDOW_SECS
                   THEN /\ reqs'[m].nth = Some(Unwrap(old).count + 1)
                        /\ IsSome(strikes'[ip])
                              => Unwrap(strikes'[ip]).first_seen
                                    = Unwrap(old).first_seen
                   ELSE /\ reqs'[m].nth = Some(1)
                        /\ strikes'[ip] =
                              Some(StrikeEntry(1, at, Unwrap(reqs[m].path)))
                        /\ reqs'[m].newly_banned = Some(FALSE)
                        /\ banned' = banned
      ]_vars

\* AUTOBAN_THRESHOLD - 1 strikes of "ip1" at time 0 and one more after the
\* window has elapsed: the late strike is number 1 again, nobody is banned.
C35_Witness ==
    /\ Len(strike_hist["ip1"]) = AUTOBAN_THRESHOLD
    /\ \A k \in 1..(AUTOBAN_THRESHOLD - 1) :
          strike_hist["ip1"][k].at = 0 /\ strike_hist["ip1"][k].nth = k
    /\ strike_hist["ip1"][AUTOBAN_THRESHOLD].at > 0 + AUTOBAN_WINDOW_SECS
    /\ strike_hist["ip1"][AUTOBAN_THRESHOLD].nth = 1
    /\ \A m \in BanProcs : reqs[m].pc \in {"idle", "done"}
    /\ \A m \in BanProcs : reqs[m].newly_banned # Some(TRUE)
    /\ ~IsSome(banned["ip1"])

\* C36: a step of cleanup_expired only removes entries, and for every
\* address and every time stamp from now on is_banned answers, and
\* record_strike counts, the same with the maps after the step as with
\* the maps before it.
C36_CleanupChangesNoLaterAnswer ==
    [][ (sweeper.pc # "idle" /\ sweeper'.pc # sweeper.pc)
          => \A ip \in Ips :
                /\ banned'[ip] \in {banned[ip], None}
                /\ strikes'[ip] \in {strikes[ip], None}
                /\ is_banned(ip)' <=> is_banned(ip)
                /\ \A t \in now..MaxTime :
                      /\ (IsSome(banned'[ip])
                             /\ t < Unwrap(banned'[ip]).expires_at)
                            <=> (IsSome(banned[ip])
                                   /\ t < Unwrap(banned[ip]).expires_at)
                      /\ \A path \in Paths :
                            record_strike_entry(ip, t, path)'
                               = record_strike_entry(ip, t, path)
      ]_vars

\* A sweep has removed the strike entry of an address and a ban entry, and
\* a request of that address was counted afterwards.
C36_Witness ==
    \E ip \in Ips : \E k \in 1..Len(strike_hist[ip]) :
        /\ strike_hist[ip][k].nth = 0
        /\ k < Len(strike_hist[ip])
        /\ strike_hist[ip][k + 1].nth = 1
        /\ \E m \in BanProcs :
              /\ reqs[m].pc = "done" /\ reqs[m].ip = Some("ip1")
              /\ reqs[m].saw_banned = Some(FALSE)
        /\ ~IsSome(banned["ip1"]) /\ IsSome(ip_bans["ip1"])

\* C37: a DELETE of cleanup_expired_tokens removes only records whose
\* expires_at is before the current time, and for every stored hash and
\* every time from now on the lookups of refresh_tokens, verify_magic_link
\* and complete_password_reset find the same record in the table after the
\* DELETE as in the table before it.
C37_SweepChangesNoLaterLookup ==
    [][ (calls' = calls /\ now' = now)
          => /\ refresh_tokens' \subseteq refresh_tokens
             /\ magic_link_tokens' \subseteq magic_link_tokens
             /\ password_reset_tokens' \subseteq password_reset_tokens
             /\ \A r \in (refresh_tokens \ refresh_tokens')
                      \cup (magic_link_tokens \ magic_link_tokens')
                      \cup (password_reset_tokens \ password_reset_tokens') :
                   r.expires_at < now
             /\ \A r \in refresh_tokens :
                   /\ find_refresh_token_by_hash(r.token_hash)'
                         = find_refresh_token_by_hash(r.token_hash)
                   /\ \A t \in now..MaxTime :
                         (~IsSome(r.revoked_at) /\ r.expires_at > t)
                            => r \in refresh_tokens'
             /\ \A r \in magic_link_tokens :
                   /\ find_magic_link_token_by_hash(r.token_hash)'
                         = find_magic_link_token_by_hash(r.token_hash)
                   /\ \A t \in now..MaxTime :
                         (~IsSome(r.used_at) /\ r.expires_at > t)
                            => r \in magic_link_tokens'
             /\ \A r \in password_reset_tokens :
                   /\ find_password_reset_token_by_hash(r.token_hash)'
                         = find_password_reset_token_by_hash(r.token_hash)
                   /\ \A t \in now..MaxTime :
                         (~IsSome(r.used_at) /\ r.expires_at > t)
                            => r \in password_reset_tokens'
      ]_vars

\* The sweep has deleted the expired records of all three tables; a
\* verify_magic_link call with the mailed link has since ended with
\* InvalidCredentials and a complete_password_reset call with the mailed
\* reset link is about to look its record up.
C37_Witness ==
    /\ refresh_tokens = {} /\ magic_link_tokens = {}
    /\ password_reset_tokens = {}
    /\ Finished(1, "verify_magic_link")
    /\ calls[1].token = Some(generate_secure_token(4))
    /\ calls[1].result = "InvalidCredentials"
    /\ calls[2].pc = "complete_password_reset_find"
    /\ calls[2].token = Some(generate_secure_token(6))

\* C38: the upsert of a check_and_increment call leaves every other key's
\* window alone; on its own key it either counts one more in the stored
\* window, whose window_start stays what it was, or (no window stored, or
\* the stored window_start is before the call's now - window_seconds)
\* stores count 1 with window_start at the time of the statement.
C38_WindowStartMovesOnlyOnReset ==
    [][ \A p \in RateProcs :
          (rl_calls[p].pc = "upsert" /\ rl_calls'[p].result = "Ok")
            => LET k == Unwrap(rl_calls[p].key)
                   old == rate_limits[k]
                   new == Unwrap(rate_limits'[k])
               IN  /\ \A j \in RateKeys \ {k} :
                         rate_limits'[j] = rate_limits[j]
                   /\ IF /\ IsSome(old)
                         /\ ~(Unwrap(old).window_start
                                 < Unwrap(rl_calls[p].window_start))
                      THEN /\ new.window_start = Unwrap(old).window_start
                           /\ new.count = Unwrap(old).count + 1
                      ELSE /\ new.window_start = now
                           /\ new.count = 1
      ]_vars

\* 2 * RATE_MAX_REQUESTS calls on one key, RATE_MAX_REQUESTS in the window
\* that started at time 0 and RATE_MAX_REQUESTS in the window that the
\* next call started: none of them is reported as exceeded, and the last
\* three were made within RATE_WINDOW_SECONDS of each other.
C38_Witness ==
    /\ \A p \in RateProcs :
          /\ RateDone(p) /\ rl_calls[p].key = Some("u1@x")
          /\ rl_calls[p].exceeded = Some(FALSE)
    /\ Cardinality(RateProcs) = 2 * RATE_MAX_REQUESTS
    /\ \A p \in 1..RATE_MAX_REQUESTS :
          /\ Unwrap(rl_calls[p].stored).window_start = 0
          /\ rl_calls[p].count = Some(p)
    /\ \A p \in (RATE_MAX_REQUESTS + 1)..(2 * RATE_MAX_REQUESTS) :
          /\ Unwrap(rl_calls[p].stored).window_start
                = 0 + RATE_WINDOW_SECONDS + 1
          /\ rl_calls[p].count = Some(p - RATE_MAX_REQUESTS)
    /\ Unwrap(rl_calls[RATE_MAX_REQUESTS].window_start) = 0

\* C40: check changes no rate window; the exceeded it reports is what the
\* statement of check_and_increment, run in place of the SELECT with the
\* same bound window_start, would have led check_and_increment to report;
\* its count is 0 when the key has no window or the stored window_start is
\* before the bound one, and the stored count otherwise.
C40_CheckAgreesWithCheckAndIncrement ==
    [][ \A p \in CheckProcs :
          rl_checks'[p] # rl_checks[p]
            => /\ rate_limits' = rate_limits
               /\ rl_checks'[p].pc = "done"
                     => LET c == rl_checks'[p]
                            row == rate_limits[Unwrap(c.key)]
                            elapsed == \/ ~IsSome(row)
                                       \/ Unwrap(row).window_start
                                             < Unwrap(c.window_start)
                            after == rate_limits_upsert(Unwrap(c.key),
                                                       Unwrap(c.window_start))
                        IN  /\ c.exceeded
                                 = Some(Unwrap(after[Unwrap(c.key)]).count
                                          > RATE_MAX_REQUESTS)
                            /\ c.count = IF elapsed THEN Some(0)
                                         ELSE Some(Unwrap(row).count)
      ]_vars

\* One check found the window full and reported exceeded, as the
\* check_and_increment call that followed it did; the other check was made
\* after the window had elapsed and reported count 0.
C40_Witness ==
    /\ rl_checks[1].pc = "done" /\ rl_checks[1].exceeded = Some(TRUE)
    /\ rl_checks[1].count = Some(RATE_MAX_REQUESTS)
    /\ \E q \in RateProcs :
          /\ RateDone(q) /\ rl_calls[q].exceeded = Some(TRUE)
          /\ rl_calls[q].count = Some(RATE_MAX_REQUESTS + 1)
    /\ rl_checks[2].pc = "done" /\ rl_checks[2].count = Some(0)
    /\ rl_checks[2].exceeded = Some(FALSE)
    /\ IsSome(rate_limits["u1@x"])

\* The store holds an unconsumed, unexpired reset record for the token.
ResetTokenUsable(token) ==
    \E r \in password_reset_tokens :
        /\ r.token_hash = hash_token(token)
        /\ ~IsSome(r.used_at)
        /\ r.expires_at > now

\* C39: verify_reset_token changes no record; it returns Ok, with the
\* record's subject, exactly for the tokens that have an unconsumed,
\* unexpired record and ends with InvalidCredentials or TokenExpired for
\* all others, which are exactly the tokens that the lookup of
\* complete_password_reset lets through and rejects; so a token it
\* accepted is accepted by a complete_password_reset on the same store.
C39_VerifyResetTokenOnlyChecks ==
    [][ \A p \in Procs :
          /\ (calls[p].op = "verify_reset_token" /\ calls'[p] # calls[p])
                => /\ password_reset_tokens' = password_reset_tokens
                   /\ users' = users /\ refresh_tokens' = refresh_tokens
                   /\ audit_logs' = audit_logs
                   /\ IF ResetTokenUsable(Unwrap(calls[p].token))
                      THEN /\ calls'[p].result = "Ok"
                           /\ \E r \in password_reset_tokens :
                                 /\ r.token_hash
                                       = hash_token(Unwrap(calls[p].token))
                                 /\ calls'[p].user_id = Some(r.user_id)
                      ELSE calls'[p].result \in Rejected
          /\ (/\ calls[p].pc = "complete_password_reset_find"
              /\ calls'[p] # calls[p])
                => IF ResetTokenUsable(Unwrap(calls[p].token))
                   THEN calls'[p].pc = "complete_password_reset_find_user"
                   ELSE calls'[p].pc = "done"
                          /\ calls'[p].result \in Rejected
      ]_vars

\* verify_reset_token accepted u1's reset token and the
\* complete_password_reset that followed with the same token returned Ok.
C39_Witness ==
    /\ Finished(1, "verify_reset_token") /\ calls[1].result = "Ok"
    /\ calls[1].token = Some(generate_secure_token(4))
    /\ calls[1].user_id = Some("u1")
    /\ Finished(2, "complete_password_reset") /\ calls[2].result = "Ok"
    /\ calls[2].token = Some(generate_secure_token(4))

====
